---- MODULE Spec2Model ----
(***************************************************************************)
(* Model of the attribution and sponsorship-resolution engine of           *)
(* oss-credit-poc: src/src/contribution_analyzer.py and                    *)
(* src/src/sponsorship_checker.py.                                         *)
(*                                                                         *)
(* Strings are TLA+ strings; lower(), `in` on strings and endswith() are   *)
(* computed character by character.  A Python value that may be None is an *)
(* option: None is <<>> and a present value v is <<v>>.                    *)
(***************************************************************************)
EXTENDS Integers, Sequences, FiniteSets, TLC

VARIABLES
    \* ---- ContributionAnalyzer instance and the attribution calls
    email_domain,        \* the email_domain argument of the run
    provider_members,    \* what /orgs/{org}/members returns: [ok, logins]
    org_members_cache,   \* self.org_members_cache: None or the set
    user_email_cache,    \* self.user_email_cache: username -> email option
    af_call,             \* last is_org_affiliated / email check call and its result
    \* ---- one analyze_contributions call
    ca_pc,               \* position in analyze_contributions
    contributions,       \* the mapping being built: key -> ContributionStats
    counted_prs,         \* the set counted_prs
    log,                 \* what the loops have consumed so far, in order
    \* ---- one check_project_sponsorship call
    sp_pc,               \* position in check_project_sponsorship
    sp_in,               \* its arguments: owner, org_name, org_sponsorships
    sp_world,            \* the provider's data: FUNDING.yml and the owner's sponsors
    sp_result,           \* the SponsorshipStatus returned (None while running)
    sp_calls,            \* provider calls issued, in order
    \* ---- models.py: the last call of a ContributionStats / PackageResult method
    md_call,
    \* ---- ecosystems_client.py: the last gateway call, its response and result
    gw_call,
    \* ---- one analyze_org_engagement run: the batch loop and the report
    bt_pc,               \* position: "loop", "report", "done"
    bt_packages,         \* the package list with what analysing each one gives
    bt_i,                \* number of packages the loop has gone through
    results,             \* the list results
    report,              \* the report generated (None before)
    \* ---- analyzer.py: loading the package list
    ld,                  \* position, input entries, packages, skipped
    \* ---- github_client.py: one request or pagination of GitHubClient
    gh                   \* position, provider answers, attempts, pages

afVars == <<email_domain, provider_members, org_members_cache, user_email_cache, af_call>>
caVars == <<ca_pc, contributions, counted_prs, log>>
spVars == <<sp_pc, sp_in, sp_world, sp_result, sp_calls>>
btVars == <<bt_pc, bt_packages, bt_i, results, report>>
ioVars == <<ld, gh>>
libVars == <<md_call, gw_call, bt_pc, bt_packages, bt_i, results, report, ld, gh>>
vars == <<email_domain, provider_members, org_members_cache, user_email_cache, af_call,
          ca_pc, contributions, counted_prs, log,
          sp_pc, sp_in, sp_world, sp_result, sp_calls,
          md_call, gw_call, bt_pc, bt_packages, bt_i, results, report, ld, gh>>

----------------------------------------------------------------------------
(* Python values *)

None == <<>>
Some(v) == <<v>>
Val(o) == o[1]

\* Python truthiness of an optional string: None and "" are falsy.
Truthy(o) == o # None /\ Val(o) # ""

----------------------------------------------------------------------------
(* str.lower(), `sub in s`, s.endswith(suffix) *)

UpperChars == "ABCDEFGHIJKLMNOPQRSTUVWXYZ"
LowerChars == "abcdefghijklmnopqrstuvwxyz"

\* The lower-case letter of every upper-case letter.
LowerOf ==
    [c \in { SubSeq(UpperChars, i, i) : i \in 1..Len(UpperChars) } |->
        LET i == CHOOSE j \in 1..Len(UpperChars) : SubSeq(UpperChars, j, j) = c
        IN  SubSeq(LowerChars, i, i)]

LowerChar(c) == IF c \in DOMAIN LowerOf THEN LowerOf[c] ELSE c

RECURSIVE Lower(_)
Lower(s) ==
    IF s = "" THEN ""
    ELSE LowerChar(SubSeq(s, 1, 1)) \o Lower(SubSeq(s, 2, Len(s)))

Contains(s, sub) ==
    \E i \in 1..(Len(s) - Len(sub) + 1) : SubSeq(s, i, i + Len(sub) - 1) = sub

EndsWith(s, suffix) ==
    /\ Len(suffix) <= Len(s)
    /\ SubSeq(s, Len(s) - Len(suffix) + 1, Len(s)) = suffix

----------------------------------------------------------------------------
(* Inputs: the strings the calls and the provider's records carry *)

Domains == {"co.com", "Co.COM", "github.com"}

Emails ==
    { None, Some(""),
      Some("u@co.com"), Some("U@Co.Com"), Some("u@xco.com"), Some("u@other.com"),
      Some("u@users.noreply.github.com"), Some("NoReply@GitHub.com"),
      Some("noreply@co.com"), Some("noreply.github.com@co.com"),
      Some("u@github.com") }

Usernames == { None, Some(""), Some("u"), Some("U"), Some("Bob"), Some("eve") }

RawLogins == {"U", "bob"}

ProviderMembers ==
    { [ok |-> FALSE, logins |-> {}] }
    \cup { [ok |-> TRUE, logins |-> S] : S \in SUBSET RawLogins }

\* The authors the provider's records carry: (GitHub login, git email).
Authors ==
    { [username |-> Some("u"),   email |-> Some("u@co.com")],
      [username |-> Some("u"),   email |-> Some("u@users.noreply.github.com")],
      [username |-> None,        email |-> Some("pub@co.com")],
      [username |-> Some("eve"), email |-> Some("eve@other.com")] }

\* What GET /users/{username} gives as the public email.
ProfileEmails == { None, Some("pub@co.com") }

KnownEmails == Emails \cup { a.email : a \in Authors } \cup ProfileEmails

----------------------------------------------------------------------------
(* Attribution: is_org_affiliated_by_email, get_org_members, is_org_affiliated *)

\* The email check testing the domain suffix without the '@'.
IsOrgAffiliatedByEmail_NoAt(email, domain) ==
    IF ~Truthy(email) THEN FALSE
    ELSE LET email_lower == Lower(Val(email)) IN
         IF Contains(email_lower, "noreply") /\ Contains(email_lower, "github.com")
         THEN FALSE
         ELSE EndsWith(email_lower, Lower(domain))

\* is_org_affiliated_by_email(email, email_domain); email is an option.
IsOrgAffiliatedByEmail(email, domain) ==
    IF ~Truthy(email) THEN FALSE
    ELSE LET email_lower == Lower(Val(email)) IN
         IF Contains(email_lower, "noreply") /\ Contains(email_lower, "github.com")
         THEN FALSE
         ELSE EndsWith(email_lower, "@" \o Lower(domain))

\* The email check of every known (email, domain) pair, computed once.
EmailTierOf ==
    [e \in KnownEmails |-> [d \in Domains |-> IsOrgAffiliatedByEmail(e, d)]]

\* The call is_org_affiliated_by_email(email, domain).
EmailTier(email, domain) ==
    IF email \in KnownEmails /\ domain \in Domains
    THEN EmailTierOf[email][domain]
    ELSE IsOrgAffiliatedByEmail(email, domain)

\* get_org_members keeping the logins as the provider spells them.
FetchedMembers_NoLower(provider) ==
    IF provider.ok THEN provider.logins ELSE {}

\* The set get_org_members builds from the provider's answer: every login
\* lowercased; the empty set when the fetch raises.
FetchedMembers(provider) ==
    IF provider.ok THEN { Lower(l) : l \in provider.logins } ELSE {}

\* get_org_members(): the cached set when there is one, else the fetched one.
GetOrgMembers(cache, provider) ==
    IF cache # None THEN Val(cache) ELSE FetchedMembers(provider)

\* Whether is_org_affiliated reaches the call of get_org_members.
ReachesMembership(username, email, domain) ==
    ~EmailTier(email, domain) /\ Truthy(username)

\* self.org_members_cache after is_org_affiliated(username, email, domain).
CacheAfter(cache, provider, username, email, domain) ==
    IF ReachesMembership(username, email, domain)
    THEN Some(GetOrgMembers(cache, provider))
    ELSE cache

NotAffiliated == [affiliated |-> FALSE, key |-> None, method |-> None]

\* is_org_affiliated trying the membership tier before the email tier.
IsOrgAffiliated_MemberFirst(username, email, domain, cache, provider) ==
    IF Truthy(username) /\ Lower(Val(username)) \in GetOrgMembers(cache, provider)
    THEN [affiliated |-> TRUE,
          key |-> Some(Val(username) \o "@" \o domain),
          method |-> Some("membership")]
    ELSE IF EmailTier(email, domain)
         THEN [affiliated |-> TRUE, key |-> email, method |-> Some("email")]
         ELSE NotAffiliated

\* is_org_affiliated without the membership tier.
IsOrgAffiliated_EmailOnly(username, email, domain, cache, provider) ==
    IF EmailTier(email, domain)
    THEN [affiliated |-> TRUE, key |-> email, method |-> Some("email")]
    ELSE NotAffiliated

\* is_org_affiliated accepting every username as a member.
IsOrgAffiliated_AnyUsername(username, email, domain, cache, provider) ==
    IF EmailTier(email, domain)
    THEN [affiliated |-> TRUE, key |-> email, method |-> Some("email")]
    ELSE IF Truthy(username)
         THEN [affiliated |-> TRUE,
               key |-> Some(Val(username) \o "@" \o domain),
               method |-> Some("membership")]
         ELSE NotAffiliated

\* is_org_affiliated(username, email, email_domain) -> (bool, key, method)
IsOrgAffiliated(username, email, domain, cache, provider) ==
    IF EmailTier(email, domain)
    THEN [affiliated |-> TRUE, key |-> email, method |-> Some("email")]
    ELSE IF Truthy(username)
              /\ Lower(Val(username)) \in GetOrgMembers(cache, provider)
         THEN [affiliated |-> TRUE,
               key |-> Some(Val(username) \o "@" \o domain),
               method |-> Some("membership")]
         ELSE NotAffiliated

NoCall == [op |-> "none", username |-> None, email |-> None, domain |-> "",
           result |-> NotAffiliated]

\* A direct call of is_org_affiliated_by_email(e, d).
AfEmailCheck ==
    /\ \E e \in Emails, d \in Domains :
          af_call' = [op |-> "by_email", username |-> None, email |-> e, domain |-> d,
                      result |-> [affiliated |-> EmailTier(e, d),
                                  key |-> None, method |-> None]]
    /\ UNCHANGED <<email_domain, provider_members, org_members_cache, user_email_cache>>
    /\ UNCHANGED caVars
    /\ UNCHANGED spVars
    /\ UNCHANGED libVars

\* A call of is_org_affiliated(u, e, email_domain) on the analyzer instance.
AfIsOrgAffiliated ==
    /\ \E u \in Usernames, e \in Emails :
          /\ af_call' = [op |-> "affiliated", username |-> u, email |-> e,
                         domain |-> email_domain,
                         result |-> IsOrgAffiliated(u, e, email_domain,
                                                    org_members_cache, provider_members)]
          /\ org_members_cache' =
                CacheAfter(org_members_cache, provider_members, u, e, email_domain)
    /\ UNCHANGED <<email_domain, provider_members, user_email_cache>>
    /\ UNCHANGED caVars
    /\ UNCHANGED spVars
    /\ UNCHANGED libVars


----------------------------------------------------------------------------
(* Sponsorship resolver: get_entity_sponsors and check_project_sponsorship *)

MaxTargets == 2
MaxNodes == 2

SeqsUpTo(S, n) == UNION { [1..k -> S] : k \in 0..n }

Entities == {"own", "m1", "m2"}
OrgNames == {"MyOrg"}
Owners == {"own"}

\* SponsorshipData
SponsorshipDatas == [current : SUBSET Entities, past : SUBSET Entities]

\* The entries of the 'github' value of FUNDING.yml: logins.
FundingTargets == {"m1", "m2"}

\* What get_file_content and yaml.safe_load give for .github/FUNDING.yml:
\*   absent    get_file_content returns None
\*   raises    get_file_content or yaml.safe_load raises
\*   empty     the content is the empty string
\*   null      the YAML document parses to None
\*   nogithub  a mapping without the key 'github'
\*   other     'github' is neither a string nor a list
\*   string    'github' is one string
\*   list      'github' is a list
FundingFiles ==
    [kind : {"absent", "raises", "empty", "null", "nogithub", "other"}, targets : {<<>>}]
    \cup [kind : {"string"}, targets : { <<t>> : t \in FundingTargets }]
    \cup [kind : {"list"}, targets : SeqsUpTo(FundingTargets, MaxTargets)]

\* One node of sponsorshipsAsMaintainer.nodes: shape is
\*   noentity  sponsorEntity is null
\*   nologin   sponsorEntity has no login
\*   ok        sponsorEntity.login is login
SponsorNodes ==
    { [shape |-> "ok", login |-> "MYORG", isActive |-> TRUE],
      [shape |-> "ok", login |-> "myorg", isActive |-> FALSE],
      [shape |-> "ok", login |-> "other", isActive |-> TRUE],
      [shape |-> "nologin", login |-> "", isActive |-> TRUE],
      [shape |-> "noentity", login |-> "", isActive |-> FALSE] }

\* The provider's answer to the user and organization queries for the owner:
\* found is "user", "org" or "none"; nodes are the nodes of all pages in order.
SponsorAnswers ==
    [found : {"user", "org"}, nodes : SeqsUpTo(SponsorNodes, MaxNodes)]
    \cup [found : {"none"}, nodes : {<<>>}]

\* The node loop of get_entity_sponsors; raises on a null sponsorEntity.
RECURSIVE CollectSponsors(_, _)
CollectSponsors(nodes, acc) ==
    IF nodes = <<>> THEN acc
    ELSE LET node == Head(nodes) IN
         IF node.shape = "null" THEN CollectSponsors(Tail(nodes), acc)
         ELSE IF node.shape = "noentity" THEN [acc EXCEPT !.raised = TRUE]
         ELSE IF node.shape = "nologin" \/ node.login = ""
              THEN CollectSponsors(Tail(nodes), acc)
         ELSE IF node.isActive
              THEN CollectSponsors(Tail(nodes),
                                   [acc EXCEPT !.current = @ \cup {node.login}])
              ELSE CollectSponsors(Tail(nodes),
                                   [acc EXCEPT !.past = @ \cup {node.login}])

\* get_entity_sponsors(entity_login): [raised, current, past]
GetEntitySponsors(answer) ==
    IF answer.found = "none"
    THEN [raised |-> FALSE, current |-> {}, past |-> {}]
    ELSE CollectSponsors(answer.nodes, [raised |-> FALSE, current |-> {}, past |-> {}])

\* The GraphQL queries get_entity_sponsors issues for one page of answers.
EntitySponsorQueries(answer) ==
    IF answer.found = "user" THEN <<"graphql_user">>
    ELSE <<"graphql_user", "graphql_org">>

Status(status, entity) == [status |-> status, entity |-> entity]

\* CHECK 1 with the two tests in the other order.
CheckDirect_PastFirst(owner, org_sponsorships) ==
    IF owner \in org_sponsorships.past THEN Some(Status("PAST_DIRECT", Some(owner)))
    ELSE IF owner \in org_sponsorships.current
         THEN Some(Status("ACTIVE_DIRECT", Some(owner)))
    ELSE None

\* CHECK 1
CheckDirect(owner, org_sponsorships) ==
    IF owner \in org_sponsorships.current THEN Some(Status("ACTIVE_DIRECT", Some(owner)))
    ELSE IF owner \in org_sponsorships.past THEN Some(Status("PAST_DIRECT", Some(owner)))
    ELSE None

\* github_sponsors after the string / list normalisation
GithubSponsors(funding) ==
    IF funding.kind \in {"string", "list"} THEN funding.targets ELSE <<>>

\* The loop over github_sponsors looking for a current target anywhere in the
\* list before it looks for a past one.
ScanTargets_CurrentFirst(targets, org_sponsorships) ==
    LET cur == { i \in DOMAIN targets : targets[i] \in org_sponsorships.current }
        old == { i \in DOMAIN targets : targets[i] \in org_sponsorships.past }
        Min(S) == CHOOSE i \in S : \A j \in S : i <= j
    IN  IF cur # {} THEN Some(Status("ACTIVE_VIA_MAINTAINER", Some(targets[Min(cur)])))
        ELSE IF old # {} THEN Some(Status("PAST_VIA_MAINTAINER", Some(targets[Min(old)])))
        ELSE None

\* for target in github_sponsors: the first target in current or past decides.
RECURSIVE ScanTargets(_, _)
ScanTargets(targets, org_sponsorships) ==
    IF targets = <<>> THEN None
    ELSE LET target == Head(targets) IN
         IF target \in org_sponsorships.current
         THEN Some(Status("ACTIVE_VIA_MAINTAINER", Some(target)))
         ELSE IF target \in org_sponsorships.past
         THEN Some(Status("PAST_VIA_MAINTAINER", Some(target)))
         ELSE ScanTargets(Tail(targets), org_sponsorships)

\* CHECK 2 never stopping at a funding target.
CheckFunding_NeverMatches(funding, org_sponsorships) == None

\* CHECK 2
CheckFunding(funding, org_sponsorships) ==
    IF funding.kind \in {"absent", "raises", "empty", "null", "nogithub"} THEN None
    ELSE ScanTargets(GithubSponsors(funding), org_sponsorships)

\* CHECK 3 comparing the organization name as typed.
CheckReverse_NoLower(owner, org_name, project_sponsors) ==
    LET current_lower  == { Lower(x) : x \in project_sponsors.current }
        past_lower     == { Lower(x) : x \in project_sponsors.past }
    IN  IF org_name \in current_lower THEN Status("ACTIVE_CONFIRMED", Some(owner))
        ELSE IF org_name \in past_lower THEN Status("PAST_CONFIRMED", Some(owner))
        ELSE Status("NOT_SPONSORED", None)

\* CHECK 3 and the fallback, given the owner's sponsors
CheckReverse(owner, org_name, project_sponsors) ==
    LET org_name_lower == Lower(org_name)
        current_lower  == { Lower(x) : x \in project_sponsors.current }
        past_lower     == { Lower(x) : x \in project_sponsors.past }
    IN  IF org_name_lower \in current_lower THEN Status("ACTIVE_CONFIRMED", Some(owner))
        ELSE IF org_name_lower \in past_lower THEN Status("PAST_CONFIRMED", Some(owner))
        ELSE Status("NOT_SPONSORED", None)

OrgSponsorships == [current |-> sp_in.current, past |-> sp_in.past]

\* check_project_sponsorship up to its first provider call: CHECK 1.
SpDirect ==
    /\ sp_pc = "direct"
    /\ LET r == CheckDirect(sp_in.owner, OrgSponsorships) IN
          IF r # None
          THEN sp_pc' = "done" /\ sp_result' = r
          ELSE sp_pc' = "funding" /\ sp_result' = None
    /\ UNCHANGED <<sp_in, sp_world, sp_calls>>
    /\ UNCHANGED afVars
    /\ UNCHANGED caVars
    /\ UNCHANGED libVars

\* CHECK 2: fetch FUNDING.yml and scan its targets.
SpFunding ==
    /\ sp_pc = "funding"
    /\ sp_calls' = Append(sp_calls, "get_file_content")
    /\ LET r == CheckFunding(sp_world.funding, OrgSponsorships) IN
          IF r # None
          THEN sp_pc' = "done" /\ sp_result' = r
          ELSE sp_pc' = "reverse" /\ sp_result' = None
    /\ UNCHANGED <<sp_in, sp_world>>
    /\ UNCHANGED afVars
    /\ UNCHANGED caVars
    /\ UNCHANGED libVars

\* CHECK 3: fetch the owner's sponsors and compare, or fall back.
SpReverse ==
    /\ sp_pc = "reverse"
    /\ sp_calls' = sp_calls \o EntitySponsorQueries(sp_world.sponsors)
    /\ LET project_sponsors == GetEntitySponsors(sp_world.sponsors) IN
          IF project_sponsors.raised
          THEN sp_pc' = "raised" /\ sp_result' = None
          ELSE /\ sp_pc' = "done"
               /\ sp_result' = Some(CheckReverse(sp_in.owner, sp_in.org_name,
                                                 project_sponsors))
    /\ UNCHANGED <<sp_in, sp_world>>
    /\ UNCHANGED afVars
    /\ UNCHANGED caVars
    /\ UNCHANGED libVars

SpIdle ==
    /\ sp_pc = "idle" /\ sp_in = [owner |-> "", org_name |-> "", current |-> {}, past |-> {}]
    /\ sp_world = [funding |-> [kind |-> "absent", targets |-> <<>>],
                   sponsors |-> [found |-> "none", nodes |-> <<>>]]
    /\ sp_result = None /\ sp_calls = <<>>

AfIdle ==
    /\ email_domain = "co.com"
    /\ provider_members = [ok |-> FALSE, logins |-> {}]
    /\ org_members_cache = None
    /\ user_email_cache = << >>
    /\ af_call = NoCall

CaIdle ==
    /\ ca_pc = "idle" /\ contributions = << >> /\ counted_prs = {}
    /\ log = <<>>

MdIdle == md_call = [op |-> "none"]

GwIdle == gw_call = [op |-> "none"]

BtIdle ==
    /\ bt_pc = "idle" /\ bt_packages = <<>> /\ bt_i = 0
    /\ results = <<>> /\ report = None

LdIdle == ld = [pc |-> "idle"]
GhIdle == gh = [pc |-> "idle"]
IoIdle == LdIdle /\ GhIdle

LibIdle == MdIdle /\ GwIdle /\ BtIdle /\ IoIdle

\* One call check_project_sponsorship(owner, repo, org_name, org_sponsorships)
\* against one state of the provider's data.
InitSponsor ==
    /\ sp_pc = "direct"
    /\ sp_in \in [owner : Owners, org_name : OrgNames,
                  current : SUBSET Entities, past : SUBSET Entities]
    /\ sp_world \in [funding : FundingFiles, sponsors : SponsorAnswers]
    /\ sp_result = None
    /\ sp_calls = <<>>
    /\ AfIdle
    /\ CaIdle
    /\ LibIdle

NextSponsor == SpDirect \/ SpFunding \/ SpReverse

SpecSponsor == InitSponsor /\ [][NextSponsor]_vars

\* Calls of the attribution functions on one analyzer instance.
InitAffil ==
    /\ email_domain \in Domains
    /\ provider_members \in ProviderMembers
    /\ org_members_cache = None
    /\ user_email_cache = << >>
    /\ af_call = NoCall
    /\ CaIdle
    /\ SpIdle
    /\ LibIdle

NextAffil == AfEmailCheck \/ AfIsOrgAffiliated

SpecAffil == InitAffil /\ [][NextAffil]_vars

----------------------------------------------------------------------------
(* analyze_contributions *)

MaxEvents == 2
MaxPrCommits == 2

ZeroStats ==
    [commits |-> 0, pull_requests_opened |-> 0, pull_requests_merged |-> 0,
     issues_opened |-> 0, issue_comments |-> 0, pr_review_comments |-> 0]

\* A fresh ContributionStats at every credit.
WithBucket_Always(contribs, key) ==
    [k \in DOMAIN contribs \cup {key} |-> IF k = key THEN ZeroStats ELSE contribs[k]]

\* if key not in contributions: contributions[key] = ContributionStats()
WithBucket(contribs, key) ==
    IF key \in DOMAIN contribs THEN contribs ELSE contribs @@ (key :> ZeroStats)

\* contributions[key].<field> += 1, creating the bucket when it is missing
Credit(contribs, key, field) ==
    [WithBucket(contribs, key) EXCEPT ![key][field] = @ + 1]

\* One commit object: shape is
\*   nocommit    no 'commit' entry
\*   nullauthor  commit['commit']['author'] is null
\*   ok          git author email and linked account as given
CommitRecords ==
    { [shape |-> "ok", username |-> a.username, email |-> a.email] : a \in Authors }
    \cup { [shape |-> "nocommit", username |-> None, email |-> None],
           [shape |-> "nullauthor", username |-> None, email |-> None] }

PrCommitRecords ==
    { c \in CommitRecords :
        \/ c.shape = "nocommit"
        \/ c.shape = "ok" /\ c.username \in {Some("u"), Some("eve")} }

\* One pull request with the commits get_pull_commits returns for it: window is
\*   stale     updated before since_date
\*   early     updated in the window, created before since_date
\*   in        created in the window
\* number 0 stands for a missing number.
PrRecords ==
    [window : {"stale", "early"}, number : {1}, merged : {FALSE}, commits : {<<>>}]
    \cup [window : {"in"}, number : {0}, merged : {FALSE}, commits : {<<>>}]
    \cup [window : {"in"}, number : {1, 2}, merged : BOOLEAN,
          commits : SeqsUpTo(PrCommitRecords, MaxPrCommits)]

\* One issue or comment object: shape is
\*   pull      the issue is a pull request (issues only)
\*   nulluser  'user' is null
\*   ok        user.login as given (None when missing)
UserRecords ==
    [shape : {"ok"}, username : {None, Some("u"), Some("eve")}]
    \cup { [shape |-> "nulluser", username |-> None] }

IssueRecords == UserRecords \cup { [shape |-> "pull", username |-> None] }

CaProviderMembers ==
    { [ok |-> FALSE, logins |-> {}], [ok |-> TRUE, logins |-> RawLogins] }

\* What one loop iteration consumed: the kind of record, the login and email
\* it passed to is_org_affiliated, and the pull request number (0: none).
LogEntry(kind, username, email, number) ==
    [kind |-> kind, username |-> username, email |-> email, number |-> number]

\* is_org_affiliated as called from the loops, on the instance's cache
Affiliation(username, email) ==
    IsOrgAffiliated(username, email, email_domain, org_members_cache, provider_members)

Budget == Len(log) < MaxEvents

\* One iteration of the loop over commits.
ProcessCommit ==
    /\ ca_pc = "commits"
    /\ Budget
    /\ \E commit \in CommitRecords :
          IF commit.shape = "nocommit"
          THEN /\ log' = Append(log, LogEntry("commit", None, None, 0))
               /\ UNCHANGED <<ca_pc, contributions, org_members_cache>>
          ELSE IF commit.shape = "nullauthor"
          THEN /\ ca_pc' = "raised"
               /\ UNCHANGED <<log, contributions, org_members_cache>>
          ELSE LET a == Affiliation(commit.username, commit.email) IN
               /\ log' = Append(log, LogEntry("commit", commit.username, commit.email, 0))
               /\ org_members_cache' =
                     CacheAfter(org_members_cache, provider_members,
                                commit.username, commit.email, email_domain)
               /\ contributions' =
                     IF a.affiliated THEN Credit(contributions, Val(a.key), "commits")
                     ELSE contributions
               /\ ca_pc' = ca_pc
    /\ UNCHANGED <<email_domain, provider_members, user_email_cache, af_call, counted_prs>>
    /\ UNCHANGED spVars
    /\ UNCHANGED libVars

\* The loop over the commits of a pull request looking at its first commit
\* only.
ScanPrCommits_HeadOnly(commits, cache) ==
    LET none == [found |-> FALSE, raised |-> FALSE, username |-> None, email |-> None,
                 key |-> None, cache |-> cache]
    IN  IF commits = <<>> \/ Head(commits).shape # "ok" THEN none
        ELSE LET commit == Head(commits)
                 a == IsOrgAffiliated(commit.username, commit.email, email_domain,
                                      cache, provider_members)
                 c == CacheAfter(cache, provider_members,
                                 commit.username, commit.email, email_domain)
             IN  IF a.affiliated
                 THEN [found |-> TRUE, raised |-> FALSE, username |-> commit.username,
                       email |-> commit.email, key |-> a.key, cache |-> c]
                 ELSE [none EXCEPT !.cache = c]

\* The loop over the commits of one pull request: [found, raised, author, cache].
RECURSIVE ScanPrCommits(_, _)
ScanPrCommits(commits, cache) ==
    IF commits = <<>>
    THEN [found |-> FALSE, raised |-> FALSE, username |-> None, email |-> None,
          key |-> None, cache |-> cache]
    ELSE LET commit == Head(commits) IN
         IF commit.shape = "nocommit" THEN ScanPrCommits(Tail(commits), cache)
         ELSE IF commit.shape = "nullauthor"
         THEN [found |-> FALSE, raised |-> TRUE, username |-> None, email |-> None,
               key |-> None, cache |-> cache]
         ELSE LET a == IsOrgAffiliated(commit.username, commit.email, email_domain,
                                       cache, provider_members)
                  c == CacheAfter(cache, provider_members,
                                  commit.username, commit.email, email_domain)
              IN  IF a.affiliated
                  THEN [found |-> TRUE, raised |-> FALSE, username |-> commit.username,
                        email |-> commit.email, key |-> a.key, cache |-> c]
                  ELSE ScanPrCommits(Tail(commits), c)

\* pr_key = f"{attribution_email}:{pr_number}"
PrKey(key, number) == <<key, number>>

\* One iteration of the loop over pull requests.
ProcessPull ==
    /\ ca_pc = "pulls"
    /\ Budget
    /\ \E pr \in PrRecords :
          IF pr.window = "stale"
          THEN /\ ca_pc' = "issues"
               /\ UNCHANGED <<log, contributions, counted_prs, org_members_cache>>
          ELSE IF pr.window = "early" \/ pr.number = 0
          THEN /\ log' = Append(log, LogEntry("pull_skipped", None, None, pr.number))
               /\ UNCHANGED <<ca_pc, contributions, counted_prs, org_members_cache>>
          ELSE LET r == ScanPrCommits(pr.commits, org_members_cache) IN
               /\ org_members_cache' = r.cache
               /\ IF r.raised
                  THEN /\ ca_pc' = "raised"
                       /\ UNCHANGED <<log, contributions, counted_prs>>
                  ELSE /\ ca_pc' = ca_pc
                       /\ log' = Append(log, LogEntry("pull", r.username, r.email, pr.number))
                       /\ IF r.found /\ PrKey(Val(r.key), pr.number) \notin counted_prs
                          THEN /\ contributions' =
                                    LET opened == Credit(contributions, Val(r.key),
                                                         "pull_requests_opened")
                                    IN  IF pr.merged
                                        THEN Credit(opened, Val(r.key),
                                                    "pull_requests_merged")
                                        ELSE opened
                               /\ counted_prs' =
                                    counted_prs \cup {PrKey(Val(r.key), pr.number)}
                          ELSE UNCHANGED <<contributions, counted_prs>>
    /\ UNCHANGED <<email_domain, provider_members, user_email_cache, af_call>>
    /\ UNCHANGED spVars
    /\ UNCHANGED libVars

\* get_user_email(username): the cached answer, else the provider's, cached.
\* One loop iteration for a record with a user: look the email up, attribute,
\* credit `field`.
ProcessUser(pc, kind, field, records) ==
    /\ ca_pc = pc
    /\ Budget
    /\ \E rec \in records :
          IF rec.shape = "pull"
          THEN /\ log' = Append(log, LogEntry(kind, None, None, 0))
               /\ UNCHANGED <<ca_pc, contributions, org_members_cache, user_email_cache>>
          ELSE IF rec.shape = "nulluser"
          THEN /\ ca_pc' = "raised"
               /\ UNCHANGED <<log, contributions, org_members_cache, user_email_cache>>
          ELSE IF ~Truthy(rec.username)
          THEN /\ log' = Append(log, LogEntry(kind, rec.username, None, 0))
               /\ UNCHANGED <<ca_pc, contributions, org_members_cache, user_email_cache>>
          ELSE \E answer \in ProfileEmails :
               LET username   == Val(rec.username)
                   user_email == IF username \in DOMAIN user_email_cache
                                 THEN user_email_cache[username]
                                 ELSE answer
                   a == Affiliation(rec.username, user_email)
               IN  /\ user_email_cache' =
                         IF username \in DOMAIN user_email_cache
                         THEN user_email_cache
                         ELSE user_email_cache @@ (username :> answer)
                   /\ org_members_cache' =
                         CacheAfter(org_members_cache, provider_members,
                                    rec.username, user_email, email_domain)
                   /\ log' = Append(log, LogEntry(kind, rec.username, user_email, 0))
                   /\ contributions' =
                         IF a.affiliated THEN Credit(contributions, Val(a.key), field)
                         ELSE contributions
                   /\ ca_pc' = ca_pc
    /\ UNCHANGED <<email_domain, provider_members, af_call, counted_prs>>
    /\ UNCHANGED spVars
    /\ UNCHANGED libVars

ProcessIssue == ProcessUser("issues", "issue", "issues_opened", IssueRecords)

ProcessIssueComment == ProcessUser("comments", "comment", "issue_comments", UserRecords)

ProcessReviewComment ==
    ProcessUser("reviews", "review", "pr_review_comments", UserRecords)

\* A loop ends when its list is exhausted; the next fetch follows.
EndLoop(from, to) ==
    /\ ca_pc = from
    /\ ca_pc' = to
    /\ UNCHANGED <<contributions, counted_prs, log>>
    /\ UNCHANGED afVars
    /\ UNCHANGED spVars
    /\ UNCHANGED libVars

EndCommits == EndLoop("commits", "pulls")
EndPulls == EndLoop("pulls", "issues")
EndIssues == EndLoop("issues", "comments")
EndComments == EndLoop("comments", "reviews")
\* return contributions
EndReviews == EndLoop("reviews", "done")

\* A fresh ContributionAnalyzer at the start of analyze_contributions.
Init ==
    /\ email_domain = "co.com"
    /\ provider_members \in CaProviderMembers
    /\ org_members_cache = None
    /\ user_email_cache = << >>
    /\ af_call = NoCall
    /\ ca_pc = "commits"
    /\ contributions = << >>
    /\ counted_prs = {}
    /\ log = <<>>
    /\ SpIdle
    /\ LibIdle

Next ==
    \/ ProcessCommit \/ EndCommits
    \/ ProcessPull \/ EndPulls
    \/ ProcessIssue \/ EndIssues
    \/ ProcessIssueComment \/ EndComments
    \/ ProcessReviewComment \/ EndReviews

Spec == Init /\ [][Next]_vars

----------------------------------------------------------------------------
(* models.py: ContributionStats and PackageResult *)

StatsFields ==
    {"commits", "pull_requests_opened", "pull_requests_merged",
     "issues_opened", "issue_comments", "pr_review_comments"}

\* ContributionStats(...) with the counters given, the others 0.
StatsOf(commits, opened, merged, issues, comments, reviews) ==
    [commits |-> commits, pull_requests_opened |-> opened,
     pull_requests_merged |-> merged, issues_opened |-> issues,
     issue_comments |-> comments, pr_review_comments |-> reviews]

\* The ContributionStats values the calls are made on.
StatsSamples ==
    { ZeroStats,
      StatsOf(1, 0, 0, 0, 0, 0),
      StatsOf(0, 0, 1, 0, 0, 0),
      StatsOf(0, 2, 1, 0, 0, 0),
      StatsOf(0, 0, 0, 1, 3, 0),
      StatsOf(0, 0, 0, 0, 0, 2),
      StatsOf(1, 2, 3, 4, 5, 6) }

\* ContributionStats.__add__ dropping the other operand's merged count.
Add_KeepsSelfMerged(self, other) ==
    [commits |-> self.commits + other.commits,
     pull_requests_opened |-> self.pull_requests_opened + other.pull_requests_opened,
     pull_requests_merged |-> self.pull_requests_merged,
     issues_opened |-> self.issues_opened + other.issues_opened,
     issue_comments |-> self.issue_comments + other.issue_comments,
     pr_review_comments |-> self.pr_review_comments + other.pr_review_comments]

\* ContributionStats.__add__(self, other), other a ContributionStats.
Add(self, other) ==
    [commits |-> self.commits + other.commits,
     pull_requests_opened |-> self.pull_requests_opened + other.pull_requests_opened,
     pull_requests_merged |-> self.pull_requests_merged + other.pull_requests_merged,
     issues_opened |-> self.issues_opened + other.issues_opened,
     issue_comments |-> self.issue_comments + other.issue_comments,
     pr_review_comments |-> self.pr_review_comments + other.pr_review_comments]

\* total_activity counting the merged pull requests too.
TotalActivity_WithMerged(stats) ==
    stats.commits + stats.pull_requests_opened + stats.pull_requests_merged
    + stats.issues_opened + stats.issue_comments + stats.pr_review_comments

\* ContributionStats.total_activity
TotalActivity(stats) ==
    stats.commits + stats.pull_requests_opened + stats.issues_opened
    + stats.issue_comments + stats.pr_review_comments

\* The status codes check_project_sponsorship returns.
StatusCodes ==
    {"ACTIVE_DIRECT", "PAST_DIRECT", "ACTIVE_VIA_MAINTAINER", "PAST_VIA_MAINTAINER",
     "ACTIVE_CONFIRMED", "PAST_CONFIRMED", "NOT_SPONSORED"}

\* PackageResult.has_contributions
HasContributions(r) == TotalActivity(r.total_contributions) > 0

\* PackageResult.has_active_sponsorship: "ACTIVE" in self.sponsorship.status
HasActiveSponsorship(r) == Contains(r.sponsorship.status, "ACTIVE")

\* has_active_sponsorship of every status code, computed once.
HasActiveOf == [c \in StatusCodes |-> Contains(c, "ACTIVE")]

\* engagement_tier with the two one-sided tiers exchanged.
TierOf_Swapped(has_contrib, has_sponsor) ==
    IF has_contrib /\ has_sponsor THEN "FULL_ENGAGEMENT"
    ELSE IF has_contrib /\ ~has_sponsor THEN "MONEY_ONLY"
    ELSE IF ~has_contrib /\ has_sponsor THEN "CODE_ONLY"
    ELSE "NO_ENGAGEMENT"

\* The if/elif chain of engagement_tier.
TierOf(has_contrib, has_sponsor) ==
    IF has_contrib /\ has_sponsor THEN "FULL_ENGAGEMENT"
    ELSE IF has_contrib /\ ~has_sponsor THEN "CODE_ONLY"
    ELSE IF ~has_contrib /\ has_sponsor THEN "MONEY_ONLY"
    ELSE "NO_ENGAGEMENT"

\* PackageResult.engagement_tier
EngagementTier(r) ==
    TierOf(TotalActivity(r.total_contributions) > 0,
           IF r.sponsorship.status \in StatusCodes
           THEN HasActiveOf[r.sponsorship.status]
           ELSE Contains(r.sponsorship.status, "ACTIVE"))

\* a + b, b + a, (a + b) + c, a + (b + c) and a + ContributionStats(), with
\* the operands as the calls leave them: __add__ assigns to neither.
MdAdd ==
    /\ \E a \in StatsSamples, b \in StatsSamples, c \in StatsSamples :
          md_call' = [op |-> "add", a |-> a, b |-> b, c |-> c,
                      ab |-> Add(a, b), ba |-> Add(b, a),
                      ab_c |-> Add(Add(a, b), c), a_bc |-> Add(a, Add(b, c)),
                      a_zero |-> Add(a, ZeroStats),
                      a_after |-> a, b_after |-> b]
    /\ UNCHANGED <<gw_call, bt_pc, bt_packages, bt_i, results, report, ld, gh>>
    /\ UNCHANGED afVars
    /\ UNCHANGED caVars
    /\ UNCHANGED spVars

\* The derived properties of a PackageResult with the given totals and status.
MdTier ==
    /\ \E total \in StatsSamples, status \in StatusCodes :
          LET r == [total_contributions |-> total,
                    sponsorship |-> Status(status, None)]
          IN  md_call' = [op |-> "tier", total |-> total, status |-> status,
                          total_activity |-> TotalActivity(total),
                          has_contributions |-> HasContributions(r),
                          has_active_sponsorship |-> HasActiveSponsorship(r),
                          engagement_tier |-> EngagementTier(r)]
    /\ UNCHANGED <<gw_call, bt_pc, bt_packages, bt_i, results, report, ld, gh>>
    /\ UNCHANGED afVars
    /\ UNCHANGED caVars
    /\ UNCHANGED spVars

InitModels ==
    /\ MdIdle /\ GwIdle /\ BtIdle /\ IoIdle
    /\ AfIdle /\ CaIdle /\ SpIdle

NextModels == MdAdd \/ MdTier

SpecModels == InitModels /\ [][NextModels]_vars

----------------------------------------------------------------------------
(* analyzer.py: the batch loop of analyze_org_engagement, and              *)
(* report_generator.py: generate_report                                    *)

MaxPackages == 2

\* [:20]
TopN == 20

TierNames == {"FULL_ENGAGEMENT", "CODE_ONLY", "MONEY_ONLY", "NO_ENGAGEMENT"}

PackageNames == {"p", "q"}

\* What analyze_contributions returns: a dict, in insertion order.
ContributorDicts ==
    { <<>>,
      << [email |-> "a", stats |-> StatsOf(2, 0, 0, 0, 0, 0)] >>,
      << [email |-> "b", stats |-> StatsOf(0, 1, 1, 0, 0, 0)],
         [email |-> "a", stats |-> StatsOf(2, 0, 0, 0, 0, 0)] >>,
      << [email |-> "a", stats |-> StatsOf(1, 0, 0, 1, 0, 0)],
         [email |-> "b", stats |-> StatsOf(0, 1, 1, 0, 0, 0)] >> }

BatchStatuses == {"ACTIVE_CONFIRMED", "PAST_DIRECT", "NOT_SPONSORED"}

\* One package of the list with what analysing it gives: outcome is
\*   ok              both calls return
\*   contrib_raises  analyze_contributions raises
\*   sponsor_raises  check_project_sponsorship raises
PackageInputs ==
    [name : PackageNames, outcome : {"ok"}, contributions : ContributorDicts,
     status : BatchStatuses]
    \cup [name : PackageNames, outcome : {"contrib_raises", "sponsor_raises"},
          contributions : {<<>>}, status : {"NOT_SPONSORED"}]

\* The aggregation keeping only the last contributor's counters.
TotalOf_LastOnly(contribs) ==
    IF contribs = <<>> THEN ZeroStats ELSE contribs[Len(contribs)].stats

\* total = ContributionStats(); for stats in contributions.values(): total = total + stats
RECURSIVE TotalOf(_)
TotalOf(contribs) ==
    IF contribs = <<>> THEN ZeroStats
    ELSE Add(TotalOf(SubSeq(contribs, 1, Len(contribs) - 1)),
             contribs[Len(contribs)].stats)

\* PackageResult(package, contributors, total_contributions, ...)
PackageResult(p) ==
    [package |-> p.name,
     contributors |-> p.contributions,
     total_contributions |-> TotalOf(p.contributions),
     unique_contributor_count |-> Len(p.contributions),
     sponsorship |-> Status(p.status, None)]

\* The loop body losing the earlier results when a package fails.
AfterPackage_DropsAll(res, p) ==
    IF p.outcome = "ok" THEN Append(res, PackageResult(p)) ELSE <<>>

\* results after the try/except of one loop iteration.
AfterPackage(res, p) ==
    IF p.outcome = "ok" THEN Append(res, PackageResult(p)) ELSE res

\* The tiers with every result listed under NO_ENGAGEMENT too.
TiersOf_AllUnengaged(res) ==
    [t \in TierNames |->
        IF t = "NO_ENGAGEMENT" THEN res
        ELSE SelectSeq(res, LAMBDA r : EngagementTier(r) = t)]

\* for r in results: tiers[r.engagement_tier].append(r)
TiersOf(res) ==
    [t \in TierNames |-> SelectSeq(res, LAMBDA r : EngagementTier(r) = t)]

IndexOfEmail(all, email) ==
    IF \E i \in DOMAIN all : all[i].email = email
    THEN CHOOSE i \in DOMAIN all : all[i].email = email
    ELSE 0

\* The inner loop body keeping the stats of the last result only.
FoldContributor_LastWins(all, email, stats, name) ==
    LET i == IndexOfEmail(all, email) IN
    IF i = 0
    THEN Append(all, [email |-> email, packages |-> <<name>>, total_stats |-> stats])
    ELSE [all EXCEPT ![i] = [email |-> email,
                             packages |-> Append(@.packages, name),
                             total_stats |-> stats]]

\* The inner loop body without the `if email not in all_contributors`.
FoldContributor_NoMerge(all, email, stats, name) ==
    Append(all, [email |-> email, packages |-> <<name>>,
                 total_stats |-> Add(ZeroStats, stats)])

\* The inner loop body: all_contributors is a dict in insertion order.
FoldContributor(all, email, stats, name) ==
    LET i == IndexOfEmail(all, email)
        with == IF i = 0
                THEN Append(all, [email |-> email, packages |-> <<>>,
                                  total_stats |-> ZeroStats])
                ELSE all
        j == IF i = 0 THEN Len(with) ELSE i
    IN  [with EXCEPT ![j] = [email |-> email,
                             packages |-> Append(@.packages, name),
                             total_stats |-> Add(@.total_stats, stats)]]

\* for email, stats in r.contributors.items()
RECURSIVE FoldResult(_, _, _)
FoldResult(all, contributors, name) ==
    IF contributors = <<>> THEN all
    ELSE FoldResult(FoldContributor(all, Head(contributors).email,
                                    Head(contributors).stats, name),
                    Tail(contributors), name)

\* for r in results
RECURSIVE AllContributors(_, _)
AllContributors(all, res) ==
    IF res = <<>> THEN all
    ELSE AllContributors(FoldResult(all, Head(res).contributors, Head(res).package),
                         Tail(res))

\* One step of sorted(..., key=len(packages), reverse=True): the entry goes
\* behind every entry with at least as many packages (the sort is stable).
InsertByPackages(sorted, entry) ==
    LET ahead == { i \in DOMAIN sorted :
                     \A j \in 1..i : Len(sorted[j].packages) >= Len(entry.packages) }
        k == Cardinality(ahead)
    IN  SubSeq(sorted, 1, k) \o <<entry>> \o SubSeq(sorted, k + 1, Len(sorted))

RECURSIVE SortedByPackages(_)
SortedByPackages(all) ==
    IF all = <<>> THEN <<>>
    ELSE InsertByPackages(SortedByPackages(SubSeq(all, 1, Len(all) - 1)), all[Len(all)])

\* top_contributors_list
TopContributors(all) ==
    LET sorted == SortedByPackages(all)
        top == SubSeq(sorted, 1, IF Len(sorted) < TopN THEN Len(sorted) ELSE TopN)
    IN  [i \in DOMAIN top |->
            [email |-> top[i].email,
             packages_count |-> Len(top[i].packages),
             packages |-> top[i].packages,
             contributions |-> top[i].total_stats]]

\* sum(r.total_contributions.<field> for r in results)
RECURSIVE SumOf(_, _)
SumOf(res, field) ==
    IF res = <<>> THEN 0
    ELSE Head(res).total_contributions[field] + SumOf(Tail(res), field)

HasPastOf == [c \in StatusCodes |-> Contains(c, "PAST")]

Summary(res, tiers, all) ==
    [total_critical_packages |-> Len(res),
     packages_with_contributions |-> Len(SelectSeq(res, HasContributions)),
     packages_with_active_sponsorship |->
        Len(SelectSeq(res, LAMBDA r : HasActiveOf[r.sponsorship.status])),
     packages_with_past_sponsorship |->
        Len(SelectSeq(res, LAMBDA r : HasPastOf[r.sponsorship.status]
                                         /\ ~HasActiveOf[r.sponsorship.status])),
     packages_with_no_engagement |-> Len(tiers["NO_ENGAGEMENT"]),
     total_commits |-> SumOf(res, "commits"),
     total_prs_opened |-> SumOf(res, "pull_requests_opened"),
     total_prs_merged |-> SumOf(res, "pull_requests_merged"),
     total_issues_opened |-> SumOf(res, "issues_opened"),
     total_issue_comments |-> SumOf(res, "issue_comments"),
     total_pr_review_comments |-> SumOf(res, "pr_review_comments"),
     unique_contributors |-> Len(all),
     engagement_breakdown |->
        [full_engagement |-> Len(tiers["FULL_ENGAGEMENT"]),
         code_only |-> Len(tiers["CODE_ONLY"]),
         money_only |-> Len(tiers["MONEY_ONLY"]),
         no_engagement |-> Len(tiers["NO_ENGAGEMENT"])]]

\* ReportGenerator.generate_report(results, ...)
GenerateReport(res) ==
    LET tiers == TiersOf(res)
        all == AllContributors(<<>>, res)
    IN  [summary |-> Summary(res, tiers, all),
         engagement_tiers |-> tiers,
         all_contributors |-> all,
         top_contributors |-> TopContributors(all),
         detailed_results |-> res]

\* One iteration of `for i, package in enumerate(packages)`.
BtAnalyze ==
    /\ bt_pc = "loop"
    /\ bt_i < Len(bt_packages)
    /\ results' = AfterPackage(results, bt_packages[bt_i + 1])
    /\ bt_i' = bt_i + 1
    /\ UNCHANGED <<bt_pc, bt_packages, report, md_call, gw_call, ld, gh>>
    /\ UNCHANGED afVars
    /\ UNCHANGED caVars
    /\ UNCHANGED spVars

\* After the loop: generate_report, print_summary, json.dump.
BtReport ==
    /\ bt_pc = "loop"
    /\ bt_i = Len(bt_packages)
    /\ report' = Some(GenerateReport(results))
    /\ bt_pc' = "done"
    /\ UNCHANGED <<bt_packages, bt_i, results, md_call, gw_call, ld, gh>>
    /\ UNCHANGED afVars
    /\ UNCHANGED caVars
    /\ UNCHANGED spVars

InitBatch ==
    /\ bt_pc = "loop"
    /\ bt_packages \in SeqsUpTo(PackageInputs, MaxPackages)
    /\ bt_i = 0
    /\ results = <<>>
    /\ report = None
    /\ MdIdle /\ GwIdle /\ IoIdle
    /\ AfIdle /\ CaIdle /\ SpIdle

NextBatch == BtAnalyze \/ BtReport

SpecBatch == InitBatch /\ [][NextBatch]_vars

----------------------------------------------------------------------------
(* ecosystems_client.py: the calls of EcosystemsClient                     *)

MaxPages == 2

\* _paginate_sponsors_api(self, url, max_pages=10)
max_pages == 10

\* JSON values as response.json() gives them.
JNull == [t |-> "null"]
JStr(s) == [t |-> "str", s |-> s]
JList(items) == [t |-> "list", items |-> items]
JDict(f) == [t |-> "dict", d |-> f]
EmptyDict == JDict([k \in {} |-> JNull])
EmptyList == JList(<<>>)

\* response.json() on a body that is not JSON raises.
Invalid == [t |-> "invalid"]

\* An exception on its way out of an expression.
Raises == [t |-> "raises"]

\* Python truthiness of a JSON value.
JTruthy(x) ==
    CASE x.t = "null" -> FALSE
      [] x.t = "str" -> x.s # ""
      [] x.t = "list" -> x.items # <<>>
      [] x.t = "dict" -> DOMAIN x.d # {}
      [] OTHER -> TRUE

\* x.get(key, default) giving the default for a null value too.
Get_NullIsDefault(x, key, default) ==
    IF x.t # "dict" THEN Raises
    ELSE IF key \in DOMAIN x.d /\ x.d[key] # JNull THEN x.d[key]
    ELSE default

\* x.get(key, default): only a dict has it (AttributeError otherwise); a key
\* that is present with a null value yields the null, not the default.
Get(x, key, default) ==
    IF x.t # "dict" THEN Raises
    ELSE IF key \in DOMAIN x.d THEN x.d[key]
    ELSE default

RECURSIVE SeqOfSet(_)
SeqOfSet(S) ==
    IF S = {} THEN <<>>
    ELSE LET e == CHOOSE e \in S : TRUE IN <<e>> \o SeqOfSet(S \ {e})

\* What `for item in x` and list.extend(x) go through, as a list: the items
\* of a list, the keys of a dict, the characters of a string; None is not
\* iterable.
Iterate(x) ==
    CASE x.t = "list" -> x
      [] x.t = "dict" -> JList([i \in 1..Cardinality(DOMAIN x.d) |->
                                   JStr(SeqOfSet(DOMAIN x.d)[i])])
      [] x.t = "str" -> JList([i \in 1..Len(x.s) |-> JStr(SubSeq(x.s, i, i))])
      [] OTHER -> Raises

\* What session.get gives: a response, a timeout or another exception.
Timeout == [kind |-> "timeout"]
TransportError == [kind |-> "error"]
Http(status_code, body) ==
    [kind |-> "http", status_code |-> status_code, body |-> body, full |-> FALSE]

\* A list page of per_page items: `len(data) < 1000` is false for it.  The
\* body keeps one item of each kind the page holds.
FullPage(body) ==
    [kind |-> "http", status_code |-> 200, body |-> body, full |-> TRUE]

\* The outcomes no body is read from.
Failures == {Timeout, TransportError, Http(404, JNull), Http(500, JNull),
             Http(200, Invalid)}

Committer(login) == JDict([login |-> JStr(login), email |-> JNull])

CommitterBodies ==
    { JDict([past_year_committers |-> JList(<<Committer("a")>>),
             committers |-> JList(<<Committer("a"), Committer("b")>>)]),
      JDict([committers |-> JList(<<Committer("b")>>)]),
      JDict([past_year_committers |-> JNull, committers |-> JNull]),
      EmptyDict, EmptyList, JNull }

Authors1 == JDict([a |-> 1])
Authors2 == JDict([a |-> 2, b |-> 1])

IssueBodies ==
    { JDict([issue_authors |-> Authors2, pull_request_authors |-> Authors2,
             past_year_issue_authors |-> Authors1,
             past_year_pull_request_authors |-> Authors1]),
      JDict([issue_authors |-> Authors2, pull_request_authors |-> Authors1]),
      JDict([issue_authors |-> JNull, pull_request_authors |-> Authors1,
             past_year_issue_authors |-> JNull,
             past_year_pull_request_authors |-> Authors1]),
      EmptyDict, EmptyList, JNull }

Funding(github) == JDict([metadata |-> JDict([funding |-> JDict([github |-> github])])])

FundingBodies ==
    { Funding(JStr("own")),
      Funding(JList(<<JStr("own"), JStr("m1")>>)),
      Funding(JNull),
      Funding(EmptyDict),
      JDict([metadata |-> JDict([funding |-> JDict([custom |-> JStr("u")])])]),
      JDict([metadata |-> JDict([funding |-> JNull])]),
      JDict([metadata |-> JDict([funding |-> JStr("own")])]),
      JDict([metadata |-> JNull]),
      EmptyDict, EmptyList, JNull }

Maintainer(username) == JDict([maintainer |-> username])

MaintainerBodies ==
    { JDict([maintainers |-> JList(<<Maintainer(JStr("Alice")), Maintainer(JStr("bob"))>>)]),
      JDict([maintainers |-> JList(<<Maintainer(JStr("bob")), Maintainer(JNull)>>)]),
      JDict([maintainers |-> JList(<<Maintainer(JStr("Alice")), JNull>>)]),
      JDict([maintainers |-> JList(<<EmptyDict>>)]),
      JDict([maintainers |-> JNull]),
      EmptyDict, EmptyList, JNull }

\* One sponsorship of the sponsors API, by the key of the other party.
Sponsorship(party, login, status) ==
    JDict(party :> JDict([login |-> login]) @@ "status" :> status)

SponsorItems(party) ==
    { Sponsorship(party, JStr("M1"), JStr("active")),
      Sponsorship(party, JStr("m2"), JStr("Active")),
      Sponsorship(party, JStr("m2"), JStr("inactive")),
      Sponsorship(party, JNull, JStr("active")),
      Sponsorship(party, JStr("M1"), JNull),
      JDict(party :> JNull @@ "status" :> JStr("active")),
      JDict([status |-> JStr("active")]),
      JDict(party :> JDict([login |-> JStr("m2")])),
      JNull }

\* What the provider answers for one page of a sponsors listing.
SponsorPages(party) ==
    Failures
    \cup { Http(200, JList(<<i>>)) : i \in SponsorItems(party) }
    \cup { FullPage(JList(<<i>>)) : i \in SponsorItems(party) }
    \cup { Http(200, EmptyList), Http(200, JNull),
           Http(200, JDict([error |-> JStr("x")])) }

\* The answer for a page behind the last one the provider has: no data.
PageAnswer(pages, page) ==
    IF page <= Len(pages) THEN pages[page] ELSE Http(200, EmptyList)

\* _paginate_sponsors_api: the body of the while loop from the given page on.
RECURSIVE Paginate(_, _, _)
Paginate(pages, page, res) ==
    IF page > max_pages THEN res
    ELSE LET response == PageAnswer(pages, page)
             data == response.body
         IN  IF response.kind # "http" THEN res
             ELSE IF response.status_code = 404 THEN res
             ELSE IF response.status_code # 200 THEN res
             ELSE IF data = Invalid THEN res
             ELSE IF ~JTruthy(data) THEN res
             ELSE IF Iterate(data) = Raises THEN res
             ELSE IF ~response.full THEN res \o Iterate(data).items
             ELSE Paginate(pages, page + 1, res \o Iterate(data).items)

_paginate_sponsors_api(pages) == Paginate(pages, 1, <<>>)

GwLowerOf == [s \in {"", "active", "Active", "inactive", "Alice", "bob"} |-> Lower(s)]

\* The loop of get_account_sponsorships / get_account_sponsors over the
\* items, with the sets gathered so far; nothing around it catches.
RECURSIVE SortSponsors(_, _, _)
SortSponsors(items, party, data) ==
    IF items = <<>> THEN data
    ELSE LET item == Head(items)
             other == Get(item, party, EmptyDict)
             login == IF other = Raises THEN Raises ELSE Get(other, "login", JNull)
             status == Get(item, "status", JStr(""))
         IN  IF login = Raises THEN Raises
             ELSE IF ~JTruthy(login) THEN SortSponsors(Tail(items), party, data)
             ELSE IF status.t # "str" THEN Raises
             ELSE IF GwLowerOf[status.s] = "active"
                  THEN SortSponsors(Tail(items), party,
                                    [data EXCEPT !.current = @ \cup {login.s}])
                  ELSE SortSponsors(Tail(items), party,
                                    [data EXCEPT !.past = @ \cup {login.s}])

EmptySponsorshipData == [current |-> {}, past |-> {}]

get_account_sponsorships(pages) ==
    SortSponsors(_paginate_sponsors_api(pages), "maintainer", EmptySponsorshipData)

get_account_sponsors(pages) ==
    SortSponsors(_paginate_sponsors_api(pages), "funder", EmptySponsorshipData)

\* The body read under the try of the repository calls: Raises stands for
\* every path into `except Exception`.
BodyOf(response) ==
    IF response.kind # "http" THEN Raises
    ELSE IF response.body = Invalid THEN Raises
    ELSE response.body

get_repo_funding(response) ==
    IF response.kind = "http" /\ response.status_code # 200 THEN EmptyList
    ELSE LET data == BodyOf(response)
             metadata == IF data = Raises THEN Raises ELSE Get(data, "metadata", EmptyDict)
             funding == IF metadata = Raises THEN Raises ELSE Get(metadata, "funding", JNull)
             github_sponsors == IF funding = Raises \/ ~JTruthy(funding) THEN Raises
                                ELSE Get(funding, "github", EmptyList)
         IN  IF funding = Raises THEN EmptyList
             ELSE IF ~JTruthy(funding) THEN EmptyList
             ELSE IF github_sponsors = Raises THEN EmptyList
             ELSE IF github_sponsors.t = "str" THEN JList(<<github_sponsors>>)
             ELSE IF github_sponsors.t = "list" THEN github_sponsors
             ELSE EmptyList

\* get_repo_committers reading the past-year list whatever the flag.
get_repo_committers_AlwaysPastYear(response, past_year) ==
    IF response.kind = "http" /\ response.status_code # 200 THEN EmptyList
    ELSE LET data == BodyOf(response)
             found == IF data = Raises THEN Raises
                      ELSE Get(data, "past_year_committers", EmptyList)
         IN  IF found = Raises THEN EmptyList ELSE found

get_repo_committers(response, past_year) ==
    IF response.kind = "http" /\ response.status_code # 200 THEN EmptyList
    ELSE LET data == BodyOf(response)
             found == IF data = Raises THEN Raises
                      ELSE IF past_year THEN Get(data, "past_year_committers", EmptyList)
                      ELSE Get(data, "committers", EmptyList)
         IN  IF found = Raises THEN EmptyList ELSE found

\* The record of the two early returns.
TwoMappings == [issue_authors |-> EmptyDict, pull_request_authors |-> EmptyDict]

\* get_repo_issue_contributors giving all four keys on every path.
get_repo_issue_contributors_FourKeys(response) ==
    LET data == IF response.kind = "http" /\ response.status_code # 200
                THEN EmptyDict ELSE BodyOf(response)
        body == IF data = Raises \/ data.t # "dict" THEN EmptyDict ELSE data
    IN  [issue_authors |-> Get(body, "issue_authors", EmptyDict),
         pull_request_authors |-> Get(body, "pull_request_authors", EmptyDict),
         past_year_issue_authors |-> Get(body, "past_year_issue_authors", EmptyDict),
         past_year_pull_request_authors |->
            Get(body, "past_year_pull_request_authors", EmptyDict)]

get_repo_issue_contributors(response) ==
    IF response.kind = "http" /\ response.status_code # 200 THEN TwoMappings
    ELSE LET data == BodyOf(response) IN
         IF data = Raises \/ data.t # "dict" THEN TwoMappings
         ELSE [issue_authors |-> Get(data, "issue_authors", EmptyDict),
               pull_request_authors |-> Get(data, "pull_request_authors", EmptyDict),
               past_year_issue_authors |-> Get(data, "past_year_issue_authors", EmptyDict),
               past_year_pull_request_authors |->
                  Get(data, "past_year_pull_request_authors", EmptyDict)]

\* A Python set of strings.
PySet(members) == [t |-> "set", members |-> members]

\* The loop of get_org_maintainers; every exception in it ends in set().
RECURSIVE LowerMaintainers(_, _)
LowerMaintainers(items, maintainers) ==
    IF items = <<>> THEN PySet(maintainers)
    ELSE LET username == Get(Head(items), "maintainer", JNull) IN
         IF username = Raises THEN Raises
         ELSE IF ~JTruthy(username) THEN LowerMaintainers(Tail(items), maintainers)
         ELSE IF username.t # "str" THEN Raises
         ELSE LowerMaintainers(Tail(items), maintainers \cup {GwLowerOf[username.s]})

get_org_maintainers(response) ==
    IF response.kind = "http" /\ response.status_code # 200 THEN {}
    ELSE LET data == BodyOf(response)
             listed == IF data = Raises THEN Raises ELSE Get(data, "maintainers", EmptyList)
             items == IF listed = Raises THEN Raises ELSE Iterate(listed)
             maintainers == IF items = Raises THEN Raises
                            ELSE LowerMaintainers(items.items, {})
         IN  IF maintainers = Raises THEN {} ELSE maintainers.members

\* What a call hands to its caller: a value, or the exception it lets out.
Outcome(value) ==
    IF value = Raises THEN [raised |-> TRUE, value |-> Raises]
    ELSE [raised |-> FALSE, value |-> value]

\* One call of the client is followed; the rest of the state stays.
GwOthers ==
    /\ gw_call.op = "none"
    /\ UNCHANGED <<md_call, bt_pc, bt_packages, bt_i, results, report, ld, gh>>
    /\ UNCHANGED afVars
    /\ UNCHANGED caVars
    /\ UNCHANGED spVars

MaxYears == 2

\* past_year_only = (time_window_years == 1)
past_year_only(time_window_years) == time_window_years = 1

\* The call as a run with the given --years issues it for a package.
GwRepoCommitters ==
    /\ GwOthers
    /\ \E body \in CommitterBodies, time_window_years \in 0..MaxYears :
       \E response \in Failures \cup {Http(200, body)} :
          LET past_year == past_year_only(time_window_years) IN
          gw_call' = [op |-> "get_repo_committers", response |-> <<response>>,
                      time_window_years |-> time_window_years,
                      past_year |-> past_year,
                      result |-> Outcome(get_repo_committers(response, past_year))]

GwRepoIssueContributors ==
    /\ GwOthers
    /\ \E body \in IssueBodies :
       \E response \in Failures \cup {Http(200, body)} :
          gw_call' = [op |-> "get_repo_issue_contributors", response |-> <<response>>,
                      result |-> [raised |-> FALSE,
                                  value |-> get_repo_issue_contributors(response)]]

GwRepoFunding ==
    /\ GwOthers
    /\ \E body \in FundingBodies :
       \E response \in Failures \cup {Http(200, body)} :
          gw_call' = [op |-> "get_repo_funding", response |-> <<response>>,
                      result |-> Outcome(get_repo_funding(response))]

GwOrgMaintainers ==
    /\ GwOthers
    /\ \E body \in MaintainerBodies :
       \E response \in Failures \cup {Http(200, body)} :
          gw_call' = [op |-> "get_org_maintainers", response |-> <<response>>,
                      result |-> [raised |-> FALSE,
                                  value |-> get_org_maintainers(response)]]

GwAccountSponsorships ==
    /\ GwOthers
    /\ \E pages \in SeqsUpTo(SponsorPages("maintainer"), MaxPages) :
          gw_call' = [op |-> "get_account_sponsorships", response |-> pages,
                      result |-> Outcome(get_account_sponsorships(pages))]

GwAccountSponsors ==
    /\ GwOthers
    /\ \E pages \in SeqsUpTo(SponsorPages("funder"), MaxPages) :
          gw_call' = [op |-> "get_account_sponsors", response |-> pages,
                      result |-> Outcome(get_account_sponsors(pages))]

InitGateway == GwIdle /\ MdIdle /\ BtIdle /\ IoIdle /\ AfIdle /\ CaIdle /\ SpIdle

NextGateway ==
    \/ GwRepoCommitters
    \/ GwRepoIssueContributors
    \/ GwRepoFunding
    \/ GwOrgMaintainers
    \/ GwAccountSponsorships
    \/ GwAccountSponsors

SpecGateway == InitGateway /\ [][NextGateway]_vars

----------------------------------------------------------------------------
(* analyzer.py: loading the package list from an SBOM or a packages file   *)

MaxEntries == 2

UrlSamples == {"https://github.com/o/r", "git@github.com:o/r.git",
               "https://github.com/o", "https://gitlab.com/o/r", ""}

\* The first position from `from` on that holds one of the characters, or
\* the position behind the string.
FirstOf(str, from, chars) ==
    LET found == { k \in from..Len(str) : SubSeq(str, k, k) \in chars } IN
    IF found = {} THEN Len(str) + 1
    ELSE CHOOSE k \in found : \A m \in found : k <= m

\* re.search(r'github\.com[/:]([^/]+)/([^/\.]+)', url) from position i.
MatchAt(url, i) ==
    LET owner_from == i + 11
        owner_to == FirstOf(url, owner_from, {"/"})
        repo_to == FirstOf(url, owner_to + 1, {"/", "."})
    IN  IF /\ i + 10 <= Len(url)
           /\ SubSeq(url, i, i + 9) = "github.com"
           /\ SubSeq(url, i + 10, i + 10) \in {"/", ":"}
           /\ owner_to > owner_from
           /\ owner_to <= Len(url)
           /\ repo_to > owner_to + 1
        THEN Some(<<SubSeq(url, owner_from, owner_to - 1),
                    SubSeq(url, owner_to + 1, repo_to - 1)>>)
        ELSE None

\* parse_github_url with every URL held for valid.
ParseGithubUrl_NeverNone(url) == Some(<<"o", "r">>)

\* EcosystemsClient.parse_github_url
ParseGithubUrl(url) ==
    IF url = "" THEN None
    ELSE LET hits == { i \in 1..Len(url) : MatchAt(url, i) # None } IN
         IF hits = {} THEN None
         ELSE MatchAt(url, CHOOSE i \in hits : \A j \in hits : i <= j)

ParseGithubUrlOf == [url \in UrlSamples |-> ParseGithubUrl(url)]
IsGithubUrlOf == [url \in UrlSamples |-> Contains(url, "github.com")]

\* One SBOMPackage with what lookup_purl answers for its purl (None for an
\* entry without purl, which is not looked up).
SbomEntries ==
    { [purl |-> None, pkg_info |-> None] }
    \cup [purl : {Some("pkg:npm/x")},
          pkg_info : { Some(EmptyDict), Some(EmptyList),
                       Some(JList(<<JDict([repository_url |-> JStr("https://github.com/o/r")])>>)),
                       Some(JDict([ecosystem |-> JStr("npm")])),
                       Some(JDict([repository_url |-> JNull])) }
                     \cup { Some(JDict([repository_url |-> JStr(u)])) : u \in UrlSamples }]

\* One entry of the packages file.
FileEntries ==
    { JDict([repository_url |-> JStr(u)]) : u \in UrlSamples }
    \cup { JDict([repository_url |-> JNull]),
           JDict([owner |-> JStr("o"), repo |-> JStr("r")]),
           JDict([name |-> JStr("x"), owner |-> JStr("o")]),
           EmptyDict,
           JNull }

\* What one pass of the SBOM loop does with an entry: "package", "skipped",
\* or "raises" when an expression of the pass raises.
SbomPass(entry) ==
    IF ~Truthy(entry.purl) THEN "skipped"
    ELSE LET pkg_info == Val(entry.pkg_info)
             repo_url == Get(pkg_info, "repository_url", JStr(""))
         IN  IF ~JTruthy(pkg_info) THEN "skipped"
             ELSE IF repo_url = Raises THEN "raises"
             ELSE IF ~JTruthy(repo_url) THEN "skipped"
             ELSE IF ~IsGithubUrlOf[repo_url.s] THEN "skipped"
             ELSE IF ParseGithubUrlOf[repo_url.s] = None THEN "skipped"
             ELSE "package"

\* What one pass of the packages-file loop does with an entry: "package",
\* "continue" (left out without a word), "warning" (left out with a printed
\* warning) or "raises".
FilePass(pkg) ==
    IF pkg.t \notin {"dict", "list", "str"} THEN "raises"
    ELSE IF pkg.t = "dict" /\ "repository_url" \in DOMAIN pkg.d
    THEN LET url == pkg.d["repository_url"] IN
         IF ~JTruthy(url) THEN "continue"
         ELSE IF ParseGithubUrlOf[url.s] # None THEN "package"
         ELSE "continue"
    ELSE IF pkg.t = "dict" /\ "owner" \in DOMAIN pkg.d /\ "repo" \in DOMAIN pkg.d
    THEN "package"
    ELSE "warning"

\* The loop state after one entry.
LdAfter(pass) ==
    [ld EXCEPT !.i = @ + 1,
               !.packages = IF pass = "package" THEN Append(@, ld.i + 1) ELSE @,
               !.skipped = IF pass = "skipped" THEN Some(Val(@) + 1) ELSE @,
               !.warnings = IF pass = "warning" THEN @ + 1 ELSE @]

LdOthers ==
    /\ UNCHANGED <<md_call, gw_call, bt_pc, bt_packages, bt_i, results, report, gh>>
    /\ UNCHANGED afVars
    /\ UNCHANGED caVars
    /\ UNCHANGED spVars

\* One pass of `for sbom_pkg in sbom_packages`.
LdSbomEntry ==
    /\ ld.pc = "sbom"
    /\ ld.i < Len(ld.entries)
    /\ LET pass == SbomPass(ld.entries[ld.i + 1]) IN
       IF pass = "raises"
       THEN ld' = [ld EXCEPT !.pc = "exit"]
       ELSE ld' = LdAfter(pass)
    /\ LdOthers

\* One pass of `for pkg in packages_data`.
LdFileEntry ==
    /\ ld.pc = "file"
    /\ ld.i < Len(ld.entries)
    /\ LET pass == FilePass(ld.entries[ld.i + 1]) IN
       IF pass = "raises"
       THEN ld' = [ld EXCEPT !.pc = "exit"]
       ELSE ld' = LdAfter(pass)
    /\ LdOthers

\* After the loop: the counts printed.  Only the SBOM branch has a skipped
\* count, printed when it is positive.
LdLoaded ==
    /\ ld.pc \in {"sbom", "file"}
    /\ ld.i = Len(ld.entries)
    /\ ld' = [ld EXCEPT !.pc = "loaded",
                        !.printed_skipped =
                            IF ld.pc = "sbom" /\ Val(ld.skipped) > 0
                            THEN ld.skipped ELSE None]
    /\ LdOthers

InitLoad ==
    /\ \E mode \in {"sbom", "file"} :
       \E entries \in SeqsUpTo(IF mode = "sbom" THEN SbomEntries ELSE FileEntries,
                               MaxEntries) :
          ld = [pc |-> mode, mode |-> mode, entries |-> entries, i |-> 0,
                packages |-> <<>>,
                skipped |-> IF mode = "sbom" THEN Some(0) ELSE None,
                warnings |-> 0, printed_skipped |-> None]
    /\ GhIdle
    /\ MdIdle /\ GwIdle /\ BtIdle
    /\ AfIdle /\ CaIdle /\ SpIdle

NextLoad == LdSbomEntry \/ LdFileEntry \/ LdLoaded

SpecLoad == InitLoad /\ [][NextLoad]_vars

----------------------------------------------------------------------------
(* github_client.py: rest_get, rest_paginate, graphql_query, and the       *)
(* page loop of SponsorshipChecker.get_org_sponsorships                    *)

MaxCounted == 3

\* rest_get(..., retry_count=3), graphql_query(..., retry_count=3)
retry_count == 3

\* rest_paginate(..., max_pages=10)
rest_max_pages == 10

\* What one requests.get gives: a 200 with a non-empty list, an empty list
\* or a single object; a 404; a 403 with X-RateLimit-Remaining 0; another
\* 403; a 5xx; another status; an exception.
RestAnswers == {"list", "empty", "object", "404", "403_rate", "403", "500", "400", "raises"}

\* What one requests.post of a GraphQL query gives: a 200 with errors, with
\* a null organization, with a page that has a next page or is the last.
GraphqlAnswers == {"errors", "no_organization", "page_more", "page_last",
                   "403_rate", "403", "500", "400", "raises"}

\* One pass of `for attempt in range(retry_count)` retrying on every answer.
AfterAttempt_AlwaysRetry(attempt, answer) ==
    [again |-> TRUE, value |-> "None"]

\* One pass of `for attempt in range(retry_count)`: again is true when the
\* loop goes to the next attempt, value is what is returned otherwise.
AfterAttempt(attempt, answer) ==
    CASE answer \in {"list", "empty", "object", "errors", "no_organization",
                     "page_more", "page_last"} ->
            [again |-> FALSE, value |-> IF answer = "errors" THEN "None" ELSE answer]
      [] answer = "403_rate" ->
            IF attempt + 1 < retry_count THEN [again |-> TRUE, value |-> "None"]
            ELSE [again |-> FALSE, value |-> "None"]
      [] answer \in {"500", "raises"} ->
            IF attempt < retry_count - 1 THEN [again |-> TRUE, value |-> "None"]
            ELSE [again |-> FALSE, value |-> "None"]
      [] OTHER -> [again |-> FALSE, value |-> "None"]

GhOthers ==
    /\ UNCHANGED <<md_call, gw_call, bt_pc, bt_packages, bt_i, results, report, ld>>
    /\ UNCHANGED afVars
    /\ UNCHANGED caVars
    /\ UNCHANGED spVars

\* One request of rest_get.
GhRestGet ==
    /\ gh.pc = "request"
    /\ gh.op = "rest_get"
    /\ \E answer \in RestAnswers :
          LET after == AfterAttempt(gh.attempt, answer) IN
          gh' = [gh EXCEPT !.requests = @ + 1,
                           !.attempt = IF after.again THEN @ + 1 ELSE @,
                           !.pc = IF after.again THEN "request" ELSE "returned"]
    /\ GhOthers

\* One request of rest_paginate: a pass of rest_get, and when rest_get
\* returns, the rest of the pass of `for page in range(1, max_pages + 1)`.
GhRestPaginate ==
    /\ gh.pc = "request"
    /\ gh.op = "rest_paginate"
    /\ \E answer \in RestAnswers :
          LET after == AfterAttempt(gh.attempt, answer) IN
          IF after.again
          THEN gh' = [gh EXCEPT !.requests = @ + 1, !.attempt = @ + 1]
          ELSE IF after.value = "list" /\ gh.page < rest_max_pages
          THEN gh' = [gh EXCEPT !.requests = @ + 1, !.attempt = 0, !.page = @ + 1]
          ELSE gh' = [gh EXCEPT !.requests = @ + 1, !.pc = "returned"]
    /\ GhOthers

\* One request of get_org_sponsorships: a pass of graphql_query, and when
\* it returns, the rest of the pass of `while True`.  pages counts the
\* pages read up to MaxCounted, which stands for "MaxCounted or more".
GhOrgSponsorships ==
    /\ gh.pc = "request"
    /\ gh.op = "get_org_sponsorships"
    /\ \E answer \in GraphqlAnswers :
          LET after == AfterAttempt(gh.attempt, answer) IN
          IF after.again
          THEN gh' = [gh EXCEPT !.attempt = @ + 1]
          ELSE IF after.value = "page_more"
          THEN gh' = [gh EXCEPT !.attempt = 0,
                                !.pages = IF @ < MaxCounted THEN @ + 1 ELSE @]
          ELSE gh' = [gh EXCEPT !.pc = "returned",
                                !.pages = IF after.value = "page_last" /\ @ < MaxCounted
                                          THEN @ + 1 ELSE @]
    /\ GhOthers

InitClient ==
    /\ \/ gh = [pc |-> "request", op |-> "rest_get", attempt |-> 0, requests |-> 0]
       \/ gh = [pc |-> "request", op |-> "rest_paginate", attempt |-> 0,
                requests |-> 0, page |-> 1]
       \/ gh = [pc |-> "request", op |-> "get_org_sponsorships", attempt |-> 0,
                pages |-> 0]
    /\ LdIdle
    /\ MdIdle /\ GwIdle /\ BtIdle
    /\ AfIdle /\ CaIdle /\ SpIdle

NextClient == GhRestGet \/ GhRestPaginate \/ GhOrgSponsorships

\* Every answer arrives and the client goes on: nothing in the loops waits
\* for anything but the provider's answer.
SpecClient == InitClient /\ [][NextClient]_vars /\ WF_vars(NextClient)

----------------------------------------------------------------------------
(* ContributionAnalyzer: the member and email caches over a sequence of    *)
(* lookups, the provider free to answer differently every time             *)

MaxLookups == 4
MaxInstances == 2

CacheUsernames == {"u", "eve"}

\* get_org_members fetching again when the cached set is empty.
FetchesMembers_WhenEmpty(cache) == cache = None \/ Val(cache) = {}

\* get_org_members asks the provider unless
\* `self.org_members_cache is not None`.
FetchesMembers(cache) == cache = None

\* get_user_email asks the provider unless
\* `username in self.user_email_cache`.
FetchesEmail(cache, username) == username \notin DOMAIN cache

\* get_user_email caching only the answers that carry an email.
UserEmailCacheAfter_SkipsNone(cache, username, answer) ==
    IF FetchesEmail(cache, username) /\ answer # None
    THEN cache @@ (username :> answer) ELSE cache

\* self.user_email_cache after get_user_email(username), answer being what
\* the provider gives when asked.
UserEmailCacheAfter(cache, username, answer) ==
    IF FetchesEmail(cache, username) THEN cache @@ (username :> answer) ELSE cache

\* The calls the GitHubClient has received from the analyzer instance, and
\* the first answer of each lookup.
NoLookups(instance) ==
    [pc |-> "analyzer", instance |-> instance, lookups |-> 0,
     members_calls |-> 0, email_calls |-> [u \in CacheUsernames |-> 0],
     first_members |-> None, first_email |-> << >>]

CcOthers ==
    /\ UNCHANGED <<email_domain, provider_members>>
    /\ UNCHANGED caVars
    /\ UNCHANGED spVars
    /\ UNCHANGED <<md_call, gw_call, bt_pc, bt_packages, bt_i, results, report, ld>>

\* get_org_members()
CcGetOrgMembers ==
    /\ gh.pc = "analyzer"
    /\ gh.lookups < MaxLookups
    /\ \E provider \in ProviderMembers :
          LET fetch == FetchesMembers(org_members_cache)
              members == IF fetch THEN FetchedMembers(provider)
                         ELSE Val(org_members_cache)
          IN  /\ org_members_cache' = Some(members)
              /\ af_call' = [op |-> "get_org_members", username |-> None,
                             result |-> members]
              /\ gh' = [gh EXCEPT !.lookups = @ + 1,
                                  !.members_calls = IF fetch THEN @ + 1 ELSE @,
                                  !.first_members = IF @ = None THEN Some(members) ELSE @]
    /\ UNCHANGED user_email_cache
    /\ CcOthers

\* get_user_email(username)
CcGetUserEmail ==
    /\ gh.pc = "analyzer"
    /\ gh.lookups < MaxLookups
    /\ \E username \in CacheUsernames, answer \in ProfileEmails :
          LET fetch == FetchesEmail(user_email_cache, username)
              email == IF fetch THEN answer ELSE user_email_cache[username]
          IN  /\ user_email_cache' = UserEmailCacheAfter(user_email_cache, username, answer)
              /\ af_call' = [op |-> "get_user_email", username |-> Some(username),
                             result |-> email]
              /\ gh' = [gh EXCEPT !.lookups = @ + 1,
                                  !.email_calls[username] = IF fetch THEN @ + 1 ELSE @,
                                  !.first_email = IF username \in DOMAIN @ THEN @
                                                  ELSE @ @@ (username :> email)]
    /\ UNCHANGED org_members_cache
    /\ CcOthers

\* ContributionAnalyzer(github_client, org_name): another instance.
CcNewInstance ==
    /\ gh.pc = "analyzer"
    /\ gh.instance < MaxInstances
    /\ org_members_cache' = None
    /\ user_email_cache' = << >>
    /\ af_call' = NoCall
    /\ gh' = NoLookups(gh.instance + 1)
    /\ CcOthers

InitCache ==
    /\ email_domain = "co.com"
    /\ provider_members = [ok |-> FALSE, logins |-> {}]
    /\ org_members_cache = None
    /\ user_email_cache = << >>
    /\ af_call = NoCall
    /\ gh = NoLookups(1)
    /\ CaIdle /\ SpIdle
    /\ MdIdle /\ GwIdle /\ BtIdle /\ LdIdle

NextCache == CcGetOrgMembers \/ CcGetUserEmail \/ CcNewInstance

SpecCache == InitCache /\ [][NextCache]_vars

----------------------------------------------------------------------------
(* Properties.  Their vocabulary is defined on the inputs, apart from the  *)
(* operators above.                                                        *)

\* Two one-character strings are the same letter, whatever the case.
SameLetter(c, d) ==
    \/ c = d
    \/ \E j \in 1..Len(UpperChars) :
          {c, d} = {SubSeq(UpperChars, j, j), SubSeq(LowerChars, j, j)}

EqualsIgnoringCase(a, b) ==
    /\ Len(a) = Len(b)
    /\ \A i \in 1..Len(a) : SameLetter(SubSeq(a, i, i), SubSeq(b, i, i))

Range(f) == { f[i] : i \in DOMAIN f }

\* The owner is in one of the organization's direct sets.
DirectMatch == sp_in.owner \in sp_in.current \cup sp_in.past

\* The logins FUNDING.yml declares under 'github', in order.
DeclaredTargets ==
    IF sp_world.funding.kind \in {"string", "list"} THEN sp_world.funding.targets
    ELSE <<>>

\* The positions of the declared targets the organization sponsors or sponsored.
MatchingTargets ==
    { i \in DOMAIN DeclaredTargets : DeclaredTargets[i] \in sp_in.current \cup sp_in.past }

FirstMatchingTarget ==
    DeclaredTargets[CHOOSE i \in MatchingTargets : \A j \in MatchingTargets : i <= j]

\* The sponsors the provider reports for the owner, active or lapsed.
ReportedSponsors(active) ==
    IF sp_world.sponsors.found = "none" THEN {}
    ELSE { n.login : n \in { m \in Range(sp_world.sponsors.nodes) :
                               m.shape = "ok" /\ m.isActive = active } }

OrgAmong(sponsors) == \E x \in sponsors : EqualsIgnoringCase(x, sp_in.org_name)

ViaMaintainer == {"ACTIVE_VIA_MAINTAINER", "PAST_VIA_MAINTAINER"}

\* C1: check_project_sponsorship returns the first conclusive match in the
\* order direct-current, direct-past, funding targets, reverse lookup: an owner
\* in current gives ACTIVE_DIRECT with entity owner, else an owner in past
\* gives PAST_DIRECT with entity owner, else a sponsored funding target gives a
\* VIA_MAINTAINER status; whatever the lower tiers would find, and without
\* the call raising.
C1_TierOrder ==
    /\ sp_pc = "done" =>
          /\ sp_in.owner \in sp_in.current =>
                sp_result = Some(Status("ACTIVE_DIRECT", Some(sp_in.owner)))
          /\ sp_in.owner \in sp_in.past \ sp_in.current =>
                sp_result = Some(Status("PAST_DIRECT", Some(sp_in.owner)))
          /\ ~DirectMatch /\ MatchingTargets # {} =>
                Val(sp_result).status \in ViaMaintainer
    /\ sp_pc = "raised" => ~DirectMatch /\ MatchingTargets = {}

\* C1 witness: the owner is in current and in past, a declared target is
\* sponsored and the organization is among the owner's sponsors; the call
\* returned ACTIVE_DIRECT.
C1_Witness ==
    /\ sp_pc = "done"
    /\ sp_in.owner \in sp_in.current \cap sp_in.past
    /\ MatchingTargets # {}
    /\ OrgAmong(ReportedSponsors(TRUE))
    /\ sp_result = Some(Status("ACTIVE_DIRECT", Some(sp_in.owner)))

\* C2: with the owner in neither direct set, the first declared funding
\* target, in list order, that is in current or past decides: ACTIVE_VIA_MAINTAINER
\* when it is in current, else PAST_VIA_MAINTAINER, with that target as entity;
\* later targets are not considered.
C2_FirstTargetWins ==
    sp_pc \in {"done", "raised"} /\ ~DirectMatch /\ MatchingTargets # {} =>
        /\ sp_pc = "done"
        /\ sp_result =
              Some(Status(IF FirstMatchingTarget \in sp_in.current
                          THEN "ACTIVE_VIA_MAINTAINER" ELSE "PAST_VIA_MAINTAINER",
                          Some(FirstMatchingTarget)))

\* C2 witness: the first declared target is only past, the second is current;
\* the call returned PAST_VIA_MAINTAINER for the first.
C2_Witness ==
    /\ sp_pc = "done"
    /\ ~DirectMatch
    /\ Len(DeclaredTargets) = 2
    /\ DeclaredTargets[1] \in sp_in.past \ sp_in.current
    /\ DeclaredTargets[2] \in sp_in.current
    /\ sp_result = Some(Status("PAST_VIA_MAINTAINER", Some(DeclaredTargets[1])))

\* C3: when neither the direct tier nor the funding tier matches and the
\* owner's sponsor list is fetched, the organization name is compared with the
\* owner's sponsors ignoring letter case: among the current sponsors gives
\* ACTIVE_CONFIRMED, else among the past sponsors gives PAST_CONFIRMED, both
\* with the repository owner as entity.
C3_ReverseIgnoresCase ==
    sp_pc = "done" /\ ~DirectMatch /\ MatchingTargets = {} =>
        /\ OrgAmong(ReportedSponsors(TRUE)) =>
              sp_result = Some(Status("ACTIVE_CONFIRMED", Some(sp_in.owner)))
        /\ ~OrgAmong(ReportedSponsors(TRUE)) /\ OrgAmong(ReportedSponsors(FALSE)) =>
              sp_result = Some(Status("PAST_CONFIRMED", Some(sp_in.owner)))

\* C3 witness: a declared target that is not sponsored, the organization
\* among the owner's current sponsors in another letter case and among the
\* past ones too; the call returned ACTIVE_CONFIRMED for the owner.
C3_Witness ==
    /\ sp_pc = "done"
    /\ ~DirectMatch
    /\ DeclaredTargets # <<>> /\ MatchingTargets = {}
    /\ sp_in.org_name \notin ReportedSponsors(TRUE)
    /\ OrgAmong(ReportedSponsors(TRUE))
    /\ OrgAmong(ReportedSponsors(FALSE))
    /\ sp_result = Some(Status("ACTIVE_CONFIRMED", Some(sp_in.owner)))

\* FUNDING.yml is absent, empty, unreadable or has no 'github' entry.
NoUsableFunding ==
    sp_world.funding.kind \in {"absent", "empty", "null", "raises", "nogithub"}

\* C4: with the owner in neither direct set and no usable funding
\* declaration, check_project_sponsorship raises no error, skips the funding
\* tier and goes on to the reverse lookup; it returns NOT_SPONSORED with a
\* null entity exactly when the organization is, ignoring case, in neither of
\* the owner's sponsor sets.
C4_NoFundingFallsThrough ==
    ~DirectMatch /\ NoUsableFunding =>
        /\ sp_pc # "raised"
        /\ sp_pc \in {"reverse", "done"} => sp_calls[1] = "get_file_content"
        /\ sp_pc = "done" =>
              /\ Len(sp_calls) >= 2 /\ sp_calls[2] = "graphql_user"
              /\ (sp_result = Some(Status("NOT_SPONSORED", None)))
                   <=> ~OrgAmong(ReportedSponsors(TRUE) \cup ReportedSponsors(FALSE))

\* C4, the part the code keeps: the funding tier never raises, the reverse
\* lookup is always issued, and when it returns the result is NOT_SPONSORED
\* exactly when the organization is in neither sponsor set.
C4_FundingTierSilent ==
    ~DirectMatch /\ NoUsableFunding =>
        /\ sp_pc \in {"reverse", "done", "raised"} => sp_calls[1] = "get_file_content"
        /\ sp_pc \in {"done", "raised"} =>
              Len(sp_calls) >= 2 /\ sp_calls[2] = "graphql_user"
        /\ sp_pc = "done" =>
              (sp_result = Some(Status("NOT_SPONSORED", None)))
                 <=> ~OrgAmong(ReportedSponsors(TRUE) \cup ReportedSponsors(FALSE))

\* C4 witness: reading FUNDING.yml raised, the owner has sponsors, none of
\* them the organization; the call returned NOT_SPONSORED.
C4_Witness ==
    /\ sp_pc = "done"
    /\ ~DirectMatch
    /\ sp_world.funding.kind = "raises"
    /\ ReportedSponsors(TRUE) # {}
    /\ sp_result = Some(Status("NOT_SPONSORED", None))

----------------------------------------------------------------------------
(* Attribution properties *)

ContainsIgnoringCase(s, sub) ==
    \E i \in 1..(Len(s) - Len(sub) + 1) :
        EqualsIgnoringCase(SubSeq(s, i, i + Len(sub) - 1), sub)

EndsWithIgnoringCase(s, suffix) ==
    /\ Len(suffix) <= Len(s)
    /\ EqualsIgnoringCase(SubSeq(s, Len(s) - Len(suffix) + 1, Len(s)), suffix)

\* The email is non-empty, is not a GitHub noreply address, and ends with
\* '@' + domain, all ignoring case.
EmailMatches(email, domain) ==
    /\ email # None
    /\ Val(email) # ""
    /\ ~(ContainsIgnoringCase(Val(email), "noreply")
         /\ ContainsIgnoringCase(Val(email), "github.com"))
    /\ EndsWithIgnoringCase(Val(email), "@" \o domain)

EmailMatchesOf ==
    [e \in KnownEmails |-> [d \in Domains |-> EmailMatches(e, d)]]

\* The username is non-empty and the provider lists it, ignoring case.
ListedBy(provider, username) ==
    /\ username # None
    /\ Val(username) # ""
    /\ provider.ok
    /\ \E l \in provider.logins : EqualsIgnoringCase(l, Val(username))

ListedByOf ==
    [p \in ProviderMembers |-> [u \in Usernames |-> ListedBy(p, u)]]

\* The username is a member of the organization.
IsMember(username) == ListedByOf[provider_members][username]

HasUpperCase(s) ==
    \E i \in 1..Len(s), j \in 1..Len(UpperChars) :
        SubSeq(s, i, i) = SubSeq(UpperChars, j, j)

\* C5: in is_org_affiliated the membership tier is reached only when the
\* email tier fails: whenever the email matches the domain the result is
\* affiliated by 'email' with the email exactly as given as key, member
\* username or not, and the call does not consult the member set.
C5_EmailTierFirst ==
    /\ [](af_call.op = "affiliated" /\ EmailMatchesOf[af_call.email][af_call.domain] =>
            af_call.result =
               [affiliated |-> TRUE, key |-> af_call.email, method |-> Some("email")])
    /\ [][af_call'.op = "affiliated"
          /\ EmailMatchesOf[af_call'.email][af_call'.domain] =>
              org_members_cache' = org_members_cache]_vars

\* C5 witness: a call with a matching email and a member username whose
\* synthesized key differs from the email; the key returned is the email.
C5_Witness ==
    /\ af_call.op = "affiliated"
    /\ EmailMatchesOf[af_call.email][af_call.domain]
    /\ IsMember(af_call.username)
    /\ Some(Val(af_call.username) \o "@" \o af_call.domain) # af_call.email
    /\ af_call.result.key = af_call.email

\* C6: the email-domain check is true exactly when the email is non-empty,
\* does not contain both 'noreply' and 'github.com' (ignoring case, anywhere),
\* and ends, ignoring case, with '@' + domain.
C6_EmailCheck ==
    af_call.op = "by_email" =>
        /\ af_call.result.affiliated = EmailMatchesOf[af_call.email][af_call.domain]
        /\ af_call.email \in {None, Some("")} => ~af_call.result.affiliated
        /\ af_call.email # None
           /\ ContainsIgnoringCase(Val(af_call.email), "noreply")
           /\ ContainsIgnoringCase(Val(af_call.email), "github.com") =>
              ~af_call.result.affiliated

\* C6 witness: a noreply address in another letter case checked against the
\* domain github.com, which it ends with; the check answered false.
C6_Witness ==
    /\ af_call.op = "by_email"
    /\ af_call.email = Some("NoReply@GitHub.com")
    /\ af_call.domain = "github.com"
    /\ EndsWithIgnoringCase(Val(af_call.email), "@" \o af_call.domain)
    /\ ~af_call.result.affiliated

\* C7: when the email tier fails, is_org_affiliated returns affiliated by
\* 'membership' with key username@domain, the username as given, exactly when
\* the username is non-empty and the organization lists it ignoring case;
\* otherwise not affiliated with a null key.  The member set holds only
\* lowercase usernames.
C7_MembershipTier ==
    /\ org_members_cache # None => \A m \in Val(org_members_cache) : ~HasUpperCase(m)
    /\ af_call.op = "affiliated" /\ ~EmailMatchesOf[af_call.email][af_call.domain] =>
          af_call.result =
             IF IsMember(af_call.username)
             THEN [affiliated |-> TRUE,
                   key |-> Some(Val(af_call.username) \o "@" \o af_call.domain),
                   method |-> Some("membership")]
             ELSE [affiliated |-> FALSE, key |-> None, method |-> None]

\* C7 witness: an upper-case username, listed by the provider, with no
\* matching email; the key keeps the upper case and the member set holds the
\* lower-case form only.
C7_Witness ==
    /\ af_call.op = "affiliated"
    /\ ~EmailMatchesOf[af_call.email][af_call.domain]
    /\ af_call.username = Some("U")
    /\ af_call.result.affiliated
    /\ af_call.result.key = Some("U@" \o af_call.domain)
    /\ org_members_cache # None
    /\ "u" \in Val(org_members_cache) /\ "U" \notin Val(org_members_cache)

----------------------------------------------------------------------------
(* Aggregation properties *)

\* The attribution key of an identity: the email when it matches the domain,
\* else username@domain for a member, else none.
KeyOfIdentity(username, email, domain, provider) ==
    IF EmailMatchesOf[email][domain] THEN email
    ELSE IF ListedByOf[provider][username] THEN Some(Val(username) \o "@" \o domain)
    ELSE None

KeyOfIdentityOf ==
    [p \in ProviderMembers |-> [d \in Domains |-> [u \in Usernames |-> [e \in KnownEmails |->
        KeyOfIdentity(u, e, d, p)]]]]

\* The attribution key of the identity a loop iteration looked at.
KeyOf(e) == KeyOfIdentityOf[provider_members][email_domain][e.username][e.email]

\* The positions of the log of one kind credited to key k.
Entries(kind, k) ==
    { i \in DOMAIN log : log[i].kind = kind /\ KeyOf(log[i]) = Some(k) }

Count(kind, k) == Cardinality(Entries(kind, k))

\* The distinct pull requests credited to key k.
PullsOf(k) == Cardinality({ log[i].number : i \in Entries("pull", k) })

AffiliatedKeys == { Val(KeyOf(log[i])) : i \in { j \in DOMAIN log : KeyOf(log[j]) # None } }

\* C8 as stated: commits are attributed by the email tier only: every
\* commits counter is the number of commits whose email matches the domain
\* and is the bucket's key.
C8_CommitsByEmailOnly ==
    \A k \in DOMAIN contributions :
        contributions[k].commits =
           Cardinality({ i \in DOMAIN log :
                           /\ log[i].kind = "commit"
                           /\ EmailMatchesOf[log[i].email][email_domain]
                           /\ log[i].email = Some(k) })

\* C8: commits are attributed by is_org_affiliated with both tiers: a commit
\* whose email matches the domain adds to the bucket keyed by that email; one
\* whose email does not match adds to the bucket username@domain when the
\* linked author username is an organization member; any other commit adds
\* to no commits counter.
C8_CommitsByAffiliation ==
    /\ \A k \in DOMAIN contributions : contributions[k].commits = Count("commit", k)
    /\ \A i \in DOMAIN log :
          log[i].kind = "commit" /\ KeyOf(log[i]) # None =>
              Val(KeyOf(log[i])) \in DOMAIN contributions

\* C8 witness: a commit under a noreply address by a member login was
\* counted in the bucket login@domain, and no commit carried that email.
C8_Witness ==
    \E i \in DOMAIN log :
        /\ log[i].kind = "commit"
        /\ ~EmailMatchesOf[log[i].email][email_domain]
        /\ IsMember(log[i].username)
        /\ LET k == Val(log[i].username) \o "@" \o email_domain
           IN  /\ k \in DOMAIN contributions
               /\ contributions[k].commits >= 1
               /\ \A j \in DOMAIN log : log[j].email # Some(k)

\* C9: every key of the mapping is the attribution key of an identity that
\* is affiliated (matching email or member username) and that an iteration
\* looked at; an iteration over activity of an unaffiliated author leaves the
\* mapping as it was.
C9_OnlyAffiliatedBuckets ==
    /\ [](DOMAIN contributions \subseteq AffiliatedKeys)
    /\ [][Len(log') > Len(log) /\ KeyOf(log'[Len(log')]) = None =>
              contributions' = contributions]_vars

\* C9 witness: the call returned after looking at activity of a non-member
\* with a foreign email and at affiliated activity; the only bucket is the
\* affiliated one.
C9_Witness ==
    /\ ca_pc = "done"
    /\ \E i \in DOMAIN log : Truthy(log[i].username) /\ KeyOf(log[i]) = None
    /\ Cardinality(DOMAIN contributions) = 1
    /\ DOMAIN contributions = AffiliatedKeys

\* C10 as stated: a contributor who commits under login@domain and acts as
\* the organization member login has, in the bucket login@domain, all the
\* commits, issues and pull requests of that login.
C10_OneBucketPerMember ==
    \A i \in DOMAIN log :
        /\ log[i].kind = "commit"
        /\ IsMember(log[i].username)
        /\ log[i].email = Some(Val(log[i].username) \o "@" \o email_domain)
        => LET u == log[i].username
               k == Val(log[i].email)
               By(kind) == { j \in DOMAIN log : log[j].kind = kind /\ log[j].username = u }
           IN  /\ k \in DOMAIN contributions
               /\ contributions[k].commits = Cardinality(By("commit"))
               /\ contributions[k].issues_opened = Cardinality(By("issue"))
               /\ contributions[k].pull_requests_opened =
                     Cardinality({ log[j].number : j \in By("pull") })

\* C10: counters of one attribution key accumulate across the kinds of
\* activity: the buckets are exactly the keys of the affiliated activity, one
\* each, and every counter of a bucket is the amount of that kind of activity
\* attributed to its key (pull requests counted once per number).
C10_Accumulates ==
    /\ DOMAIN contributions = AffiliatedKeys
    /\ \A k \in DOMAIN contributions :
          /\ contributions[k].commits = Count("commit", k)
          /\ contributions[k].issues_opened = Count("issue", k)
          /\ contributions[k].issue_comments = Count("comment", k)
          /\ contributions[k].pr_review_comments = Count("review", k)
          /\ contributions[k].pull_requests_opened = PullsOf(k)

\* C10 witness: a commit under u@domain by the email tier and an issue by
\* the member u, who shows no matching email: one bucket, u@domain, holding
\* the commit and the issue.
C10_Witness ==
    /\ DOMAIN contributions = {"u@co.com"}
    /\ contributions["u@co.com"].commits = 1
    /\ contributions["u@co.com"].issues_opened = 1
    /\ \E i \in DOMAIN log : log[i].kind = "commit" /\ log[i].email = Some("u@co.com")
    /\ \E i \in DOMAIN log :
          log[i].kind = "issue" /\ log[i].username = Some("u") /\ log[i].email = None

----------------------------------------------------------------------------
(* models.py properties *)

\* C11: addition of ContributionStats is counter-wise and a commutative
\* monoid with ContributionStats() as identity: (a+b)+c = a+(b+c), a+b = b+a,
\* a + zero = a; it returns a new value and leaves both operands as they were.
C11_AddMonoid ==
    md_call.op = "add" =>
        /\ \A f \in StatsFields : md_call.ab[f] = md_call.a[f] + md_call.b[f]
        /\ md_call.ab_c = md_call.a_bc
        /\ md_call.ab = md_call.ba
        /\ md_call.a_zero = md_call.a
        /\ md_call.a_after = md_call.a /\ md_call.b_after = md_call.b

\* C11 witness: three different non-zero operands, the first two with
\* different merged counts, were added in both groupings.
C11_Witness ==
    /\ md_call.op = "add"
    /\ Cardinality({md_call.a, md_call.b, md_call.c, ZeroStats}) = 4
    /\ md_call.a.pull_requests_merged # md_call.b.pull_requests_merged
    /\ md_call.ab_c = md_call.a_bc
    /\ md_call.ab # md_call.a /\ md_call.ab # md_call.b

BeginsWith(s, prefix) ==
    /\ Len(prefix) <= Len(s)
    /\ \A i \in 1..Len(prefix) : SubSeq(s, i, i) = SubSeq(prefix, i, i)

\* C12: engagement_tier is a function of (has_contributions,
\* has_active_sponsorship) only: (T,T) FULL_ENGAGEMENT, (T,F) CODE_ONLY,
\* (F,T) MONEY_ONLY, (F,F) NO_ENGAGEMENT; has_active_sponsorship is true
\* exactly for the status codes that begin with ACTIVE.
C12_EngagementTier ==
    md_call.op = "tier" =>
        /\ md_call.engagement_tier =
              (<<TRUE, TRUE>> :> "FULL_ENGAGEMENT" @@ <<TRUE, FALSE>> :> "CODE_ONLY"
               @@ <<FALSE, TRUE>> :> "MONEY_ONLY" @@ <<FALSE, FALSE>> :> "NO_ENGAGEMENT")
                 [<<md_call.has_contributions, md_call.has_active_sponsorship>>]
        /\ md_call.has_active_sponsorship = BeginsWith(md_call.status, "ACTIVE")
        /\ md_call.has_active_sponsorship =
              (md_call.status \in {"ACTIVE_DIRECT", "ACTIVE_VIA_MAINTAINER",
                                   "ACTIVE_CONFIRMED"})

\* C12 witness: a result with activity and a PAST status is CODE_ONLY.
C12_Witness ==
    /\ md_call.op = "tier"
    /\ md_call.has_contributions
    /\ md_call.status = "PAST_VIA_MAINTAINER"
    /\ md_call.engagement_tier = "CODE_ONLY"

\* C13: total_activity is commits + pull_requests_opened + issues_opened +
\* issue_comments + pr_review_comments, without pull_requests_merged;
\* has_contributions is true exactly when a counter other than
\* pull_requests_merged is positive.
C13_TotalActivity ==
    md_call.op = "tier" =>
        /\ md_call.total_activity =
              md_call.total.commits + md_call.total.pull_requests_opened
              + md_call.total.issues_opened + md_call.total.issue_comments
              + md_call.total.pr_review_comments
        /\ md_call.has_contributions
              <=> \E f \in StatsFields \ {"pull_requests_merged"} : md_call.total[f] > 0

\* C13 witness: totals whose only positive counter is pull_requests_merged
\* have no activity and no contributions.
C13_Witness ==
    /\ md_call.op = "tier"
    /\ md_call.total.pull_requests_merged > 0
    /\ md_call.total_activity = 0
    /\ ~md_call.has_contributions


----------------------------------------------------------------------------
(* report_generator.py and batch loop properties                           *)

ActiveCodes == {"ACTIVE_CONFIRMED", "ACTIVE_DIRECT", "ACTIVE_FUNDING_LISTED"}

\* The tier the four-way table gives a result, from its counters and code.
TierByTable(r) ==
    LET contributed == \E f \in StatsFields \ {"pull_requests_merged"} :
                          r.total_contributions[f] > 0
        sponsored == r.sponsorship.status \in ActiveCodes
    IN  CASE contributed /\ sponsored -> "FULL_ENGAGEMENT"
          [] contributed /\ ~sponsored -> "CODE_ONLY"
          [] ~contributed /\ sponsored -> "MONEY_ONLY"
          [] OTHER -> "NO_ENGAGEMENT"

\* How many positions of the list hold the result r.
Occurrences(list, r) == Cardinality({ i \in DOMAIN list : list[i] = r })

PackagesOf(email) ==
    { results[i].package :
        i \in { k \in DOMAIN results :
                  \E c \in DOMAIN results[k].contributors :
                     results[k].contributors[c].email = email } }

\* The identities in the order the results first list them.
FirstMet(email) ==
    CHOOSE n \in DOMAIN Val(report).all_contributors :
        Val(report).all_contributors[n].email = email

\* C15: top_contributors ranks the identities by their number of distinct
\* packages, most first, equal counts in first-met order, at most 20 of
\* them; packages_count is the number of distinct packages the identity
\* appears in, also when two results carry the same package name.
C15_TopContributors ==
    bt_pc = "done" =>
        LET top == Val(report).top_contributors IN
        /\ Len(top) <= 20
        /\ \A i \in DOMAIN top :
              top[i].packages_count = Cardinality(PackagesOf(top[i].email))
        /\ \A i, j \in DOMAIN top :
              i < j =>
                 \/ Cardinality(PackagesOf(top[i].email))
                       > Cardinality(PackagesOf(top[j].email))
                 \/ /\ Cardinality(PackagesOf(top[i].email))
                          = Cardinality(PackagesOf(top[j].email))
                    /\ FirstMet(top[i].email) < FirstMet(top[j].email)

\* C15, as the code has it: the ranking is by the number of results that
\* list the identity, most first, equal counts in first-met order, at most
\* 20 entries, each identity once; packages_count is that number of results.
C15_RankedByResults ==
    bt_pc = "done" =>
        LET top == Val(report).top_contributors
            listing(email) ==
                Cardinality({ k \in DOMAIN results :
                                \E c \in DOMAIN results[k].contributors :
                                   results[k].contributors[c].email = email })
        IN
        /\ Len(top) <= 20
        /\ \A i \in DOMAIN top : top[i].packages_count = listing(top[i].email)
        /\ \A i, j \in DOMAIN top :
              i < j =>
                 \/ listing(top[i].email) > listing(top[j].email)
                 \/ /\ listing(top[i].email) = listing(top[j].email)
                    /\ FirstMet(top[i].email) < FirstMet(top[j].email)

\* Two results of one package name, both listing the same identity, and a
\* second identity met first but listed once.
C15_Witness ==
    /\ bt_pc = "done"
    /\ Len(results) = 2
    /\ results[1].package = results[2].package
    /\ Len(Val(report).top_contributors) = 2
    /\ Val(report).top_contributors[1].packages_count = 2
    /\ Val(report).top_contributors[1].email = "a"
    /\ Val(report).all_contributors[1].email = "b"

\* The identity keys of the contributors mappings of the results.
IdentityKeys ==
    UNION { { results[k].contributors[c].email : c \in DOMAIN results[k].contributors } :
            k \in DOMAIN results }

\* The sum of one counter of total_contributions over the results up to n.
RECURSIVE SumUpTo(_, _)
SumUpTo(n, field) ==
    IF n = 0 THEN 0
    ELSE SumUpTo(n - 1, field) + results[n].total_contributions[field]

\* C16: each scalar total of the summary is the sum of the corresponding
\* counter of total_contributions over all results, and unique_contributors
\* is the number of distinct identity keys of the results' contributors
\* mappings, an identity of several packages counted once.
C16_SummaryTotals ==
    bt_pc = "done" =>
        LET sm == Val(report).summary
            n == Len(results)
        IN  /\ sm.total_commits = SumUpTo(n, "commits")
            /\ sm.total_prs_opened = SumUpTo(n, "pull_requests_opened")
            /\ sm.total_prs_merged = SumUpTo(n, "pull_requests_merged")
            /\ sm.total_issues_opened = SumUpTo(n, "issues_opened")
            /\ sm.total_issue_comments = SumUpTo(n, "issue_comments")
            /\ sm.total_pr_review_comments = SumUpTo(n, "pr_review_comments")
            /\ sm.unique_contributors = Cardinality(IdentityKeys)

\* A report over two results sharing an identity, with commits in both.
C16_Witness ==
    /\ bt_pc = "done"
    /\ Len(results) = 2
    /\ results[1].package # results[2].package
    /\ results[1].total_contributions.commits = 2
    /\ results[2].total_contributions.commits = 1
    /\ Val(report).summary.total_commits = 3
    /\ Val(report).summary.total_prs_merged = 2
    /\ Val(report).summary.unique_contributors = 2

\* The results in the order a permutation of their positions gives.
Reordered(perm) == [i \in DOMAIN results |-> results[perm[i]]]

\* What the fold leaves per identity: summed stats and the set of packages.
PerIdentity(rep) ==
    { [email |-> rep.all_contributors[n].email,
       total_stats |-> rep.all_contributors[n].total_stats,
       packages |-> Range(rep.all_contributors[n].packages)] :
      n \in DOMAIN rep.all_contributors }

\* C17: aggregation is independent of the order of the results: for every
\* reordering of the same results generate_report yields the same summed
\* stats and the same set of packages per identity, the same summary
\* totals and the same results under each tier.
C17_OrderIndependent ==
    bt_pc = "done" =>
        \A perm \in Permutations(DOMAIN results) :
            LET rep == Val(report)
                other == GenerateReport(Reordered(perm))
            IN  /\ PerIdentity(other) = PerIdentity(rep)
                /\ Cardinality(PerIdentity(rep)) = Len(rep.all_contributors)
                /\ Len(other.all_contributors) = Len(rep.all_contributors)
                /\ other.summary = rep.summary
                /\ \A t \in TierNames :
                      /\ Range(other.engagement_tiers[t]) = Range(rep.engagement_tiers[t])
                      /\ Len(other.engagement_tiers[t]) = Len(rep.engagement_tiers[t])

\* Two different results sharing an identity with different stats, which
\* the two orders meet in different order.
C17_Witness ==
    /\ bt_pc = "done"
    /\ Len(results) = 2
    /\ results[1].package # results[2].package
    /\ results[1].contributors # results[2].contributors
    /\ results[1].contributors # <<>>
    /\ results[2].contributors # <<>>
    /\ results[1].contributors[1].email # results[2].contributors[1].email
    /\ EngagementTier(results[1]) # EngagementTier(results[2])
    /\ \E n \in DOMAIN Val(report).all_contributors :
          Val(report).all_contributors[n].total_stats.commits = 3

\* The positions among the first n packages whose analysis did not fail.
Succeeded(n) == { k \in 1..n : bt_packages[k].outcome = "ok" }

\* The k-th smallest member of a set of positions.
Nth(positions, k) ==
    CHOOSE p \in positions : Cardinality({ q \in positions : q <= p }) = k

\* C18: an exception while analysing one package never aborts the batch
\* loop: the loop is only left with the whole list gone through, a failed
\* package adds no PackageResult, results holds exactly the packages among
\* those gone through that did not fail, in input order, and the loop ends
\* in the report over them.
C18_BatchContinues ==
    /\ bt_pc \in {"loop", "done"}
    /\ bt_i \in 0..Len(bt_packages)
    /\ Len(results) = Cardinality(Succeeded(bt_i))
    /\ \A k \in DOMAIN results :
          LET p == bt_packages[Nth(Succeeded(bt_i), k)] IN
          /\ results[k].package = p.name
          /\ results[k].contributors = p.contributions
          /\ results[k].sponsorship.status = p.status
    /\ bt_pc = "loop" => report = None
    /\ bt_pc = "done" =>
          /\ bt_i = Len(bt_packages)
          /\ report # None
          /\ Val(report).detailed_results = results
          /\ Val(report).summary.total_critical_packages
                = Cardinality(Succeeded(Len(bt_packages)))

\* A run whose first package fails and whose second is analysed and reported.
C18_Witness ==
    /\ bt_pc = "done"
    /\ Len(bt_packages) = 2
    /\ bt_packages[1].outcome # "ok"
    /\ bt_packages[2].outcome = "ok"
    /\ Len(results) = 1
    /\ results[1].package = bt_packages[2].name
    /\ report # None

----------------------------------------------------------------------------
(* ecosystems_client.py properties                                         *)

GatewayCalls == {"get_repo_committers", "get_repo_issue_contributors",
                 "get_repo_funding", "get_org_maintainers",
                 "get_account_sponsorships", "get_account_sponsors"}

\* The provider failed on the (first) request of the call.
ProviderFailed ==
    /\ gw_call.response # <<>>
    /\ \/ gw_call.response[1].kind # "http"
       \/ gw_call.response[1].status_code # 200
       \/ gw_call.response[1].body = Invalid

\* The call returned its empty value.
ReturnedNeutral ==
    /\ ~gw_call.result.raised
    /\ CASE gw_call.op \in {"get_repo_committers", "get_repo_funding"} ->
               gw_call.result.value = EmptyList
         [] gw_call.op = "get_repo_issue_contributors" ->
               \A k \in DOMAIN gw_call.result.value :
                  gw_call.result.value[k] = EmptyDict
         [] gw_call.op = "get_org_maintainers" -> gw_call.result.value = {}
         [] OTHER -> gw_call.result.value = EmptySponsorshipData

\* The call returned a value of the kind its empty value has.
ReturnedKind ==
    /\ ~gw_call.result.raised
    /\ gw_call.op \in {"get_repo_committers", "get_repo_funding"} =>
          gw_call.result.value.t = "list"

\* C19: no call of the gateway raises into the core: whatever the provider
\* answers (non-200, 404, timeout, transport exception, malformed or partly
\* null body) the six calls return a value, a list where a list is due,
\* and the empty value when the provider failed.
C19_NeverRaises ==
    gw_call.op \in GatewayCalls =>
        /\ ~gw_call.result.raised
        /\ ReturnedKind
        /\ ProviderFailed => ReturnedNeutral

\* The sponsorships the loop of a sponsors call goes through: the pages up to
\* the first one that is not a full page, as long as they carry data.
PagesRead ==
    { k \in DOMAIN gw_call.response :
        /\ \A j \in 1..k : /\ gw_call.response[j].kind = "http"
                           /\ gw_call.response[j].status_code = 200
                           /\ gw_call.response[j].body.t \in {"list", "dict"}
        /\ \A j \in 1..(k - 1) : gw_call.response[j].full }

\* A sponsorship the loop cannot read: not an object, the other party
\* present but not an object, or a login with a status that is no string.
Unreadable(item, party) ==
    \/ item.t # "dict"
    \/ /\ party \in DOMAIN item.d
       /\ item.d[party].t # "dict"
    \/ /\ party \in DOMAIN item.d
       /\ item.d[party].t = "dict"
       /\ "login" \in DOMAIN item.d[party].d
       /\ item.d[party].d["login"] # JNull
       /\ "status" \in DOMAIN item.d
       /\ item.d["status"].t # "str"

PartyOfCall == IF gw_call.op = "get_account_sponsorships" THEN "maintainer" ELSE "funder"

\* C19, as the code has it: the four repository and organization calls
\* never raise, every call returns its empty value when the provider failed
\* on the first request, and a sponsors call raises exactly when a page it
\* reads holds a sponsorship the loop cannot read.
C19_RaisesOnUnreadableSponsorship ==
    gw_call.op \in GatewayCalls =>
        /\ gw_call.op \notin {"get_account_sponsorships", "get_account_sponsors"}
              => ~gw_call.result.raised
        /\ ProviderFailed => ReturnedNeutral
        /\ gw_call.op \in {"get_account_sponsorships", "get_account_sponsors"} =>
              (gw_call.result.raised <=>
                  \E k \in PagesRead :
                     \/ gw_call.response[k].body.t = "dict"
                        /\ DOMAIN gw_call.response[k].body.d # {}
                     \/ /\ gw_call.response[k].body.t = "list"
                        /\ \E n \in DOMAIN gw_call.response[k].body.items :
                              Unreadable(gw_call.response[k].body.items[n], PartyOfCall))

\* A 200 answer whose only sponsorship has a null maintainer.
C19_Witness ==
    /\ gw_call.op = "get_account_sponsorships"
    /\ Len(gw_call.response) = 1
    /\ gw_call.response[1] =
          Http(200, JList(<<JDict("maintainer" :> JNull @@ "status" :> JStr("active"))>>))
    /\ gw_call.result.raised

FourMappings == {"issue_authors", "pull_request_authors",
                 "past_year_issue_authors", "past_year_pull_request_authors"}

\* C20: get_repo_issue_contributors always returns a record with the four
\* mappings issue_authors, pull_request_authors, past_year_issue_authors and
\* past_year_pull_request_authors, on success, on a non-200 response and on
\* an exception alike, the mappings then being empty.
C20_FourMappings ==
    gw_call.op = "get_repo_issue_contributors" =>
        /\ DOMAIN gw_call.result.value = FourMappings
        /\ \A k \in FourMappings : gw_call.result.value[k].t = "dict"
        /\ ProviderFailed =>
              \A k \in FourMappings : gw_call.result.value[k] = EmptyDict

\* C20, as the code has it: the record always has issue_authors and
\* pull_request_authors; it has the two past-year mappings exactly when the
\* answer is a 200 with a JSON object, each key then holding what the body
\* has under it (a null included) or the empty mapping when the body lacks
\* the key; on every other answer the record is the two empty mappings.
C20_TwoMappingsOnFailure ==
    gw_call.op = "get_repo_issue_contributors" =>
        LET response == gw_call.response[1]
            value == gw_call.result.value
            object == ~ProviderFailed /\ response.body.t = "dict"
        IN  /\ ~gw_call.result.raised
            /\ {"issue_authors", "pull_request_authors"} \subseteq DOMAIN value
            /\ object =>
                  /\ DOMAIN value = FourMappings
                  /\ \A k \in FourMappings :
                        value[k] = IF k \in DOMAIN response.body.d
                                   THEN response.body.d[k] ELSE EmptyDict
            /\ ~object =>
                  /\ DOMAIN value = {"issue_authors", "pull_request_authors"}
                  /\ \A k \in DOMAIN value : value[k] = EmptyDict

\* A 404 answered with a record of two mappings.
C20_Witness ==
    /\ gw_call.op = "get_repo_issue_contributors"
    /\ gw_call.response[1] = Http(404, JNull)
    /\ DOMAIN gw_call.result.value = {"issue_authors", "pull_request_authors"}

SponsorCalls == {"get_account_sponsorships", "get_account_sponsors"}

\* The items of the list pages a sponsors call reads.
ItemsRead ==
    UNION { { gw_call.response[k].body.items[n] :
                n \in DOMAIN gw_call.response[k].body.items } :
            k \in { p \in PagesRead : gw_call.response[p].body.t = "list" } }

\* The records read that name a login, as [login, active] pairs.
RecordsRead ==
    { [login |-> it.d[PartyOfCall].d["login"].s,
       active |-> "status" \in DOMAIN it.d /\ it.d["status"].s \in {"active", "Active"}] :
      it \in { i \in ItemsRead :
                 /\ i.t = "dict"
                 /\ PartyOfCall \in DOMAIN i.d
                 /\ i.d[PartyOfCall].t = "dict"
                 /\ i.d[PartyOfCall].d["login"] # JNull } }

\* C21: every SponsorshipData built from provider records has disjoint
\* current and past sets, also when the records hold both an active and a
\* lapsed record for the same entity.
C21_Disjoint ==
    (gw_call.op \in SponsorCalls /\ ~gw_call.result.raised) =>
        gw_call.result.value.current \cap gw_call.result.value.past = {}

\* C21, as the code has it: current holds the logins of the active records
\* read and past the logins of the other records read, each record on its
\* own; a login is in both sets exactly when it has a record of each kind.
C21_SetsByRecord ==
    (gw_call.op \in SponsorCalls /\ ~gw_call.result.raised) =>
        /\ gw_call.result.value.current = { r.login : r \in { q \in RecordsRead : q.active } }
        /\ gw_call.result.value.past = { r.login : r \in { q \in RecordsRead : ~q.active } }

\* An active record on a full first page and a lapsed record of the same
\* login on the second page.
C21_Witness ==
    /\ gw_call.op = "get_account_sponsorships"
    /\ ~gw_call.result.raised
    /\ Len(gw_call.response) = 2
    /\ "m2" \in gw_call.result.value.current
    /\ "m2" \in gw_call.result.value.past
    /\ gw_call.response[1].kind = "http"
    /\ gw_call.response[1].full

\* What a body holds under a key, the default when it lacks the key.
Under(body, key, default) ==
    IF key \in DOMAIN body.d THEN body.d[key] ELSE default

----------------------------------------------------------------------------
(* Package list loading properties                                         *)

\* The sample URLs that name a GitHub owner and repository.
GoodUrls == {"https://github.com/o/r", "git@github.com:o/r.git"}

\* The entry holds a string under repository_url that names a repository.
HasGoodUrl(obj) ==
    /\ obj.t = "dict"
    /\ "repository_url" \in DOMAIN obj.d
    /\ obj.d["repository_url"].t = "str"
    /\ obj.d["repository_url"].s \in GoodUrls

\* The entries among the first n that give a package.
Usable(n) ==
    { k \in 1..n :
        IF ld.mode = "sbom"
        THEN /\ ld.entries[k].purl # None
             /\ HasGoodUrl(Val(ld.entries[k].pkg_info))
        ELSE \/ HasGoodUrl(ld.entries[k])
             \/ /\ ld.entries[k].t = "dict"
                /\ "repository_url" \notin DOMAIN ld.entries[k].d
                /\ {"owner", "repo"} \subseteq DOMAIN ld.entries[k].d }

\* The entry the loop stands before is no object: a null entry of the
\* packages file, or a purl lookup answered with a list.
BeforeNonObject ==
    /\ ld.i < Len(ld.entries)
    /\ IF ld.mode = "sbom"
       THEN /\ ld.entries[ld.i + 1].purl # None
            /\ Val(ld.entries[ld.i + 1].pkg_info).t = "list"
            /\ Val(ld.entries[ld.i + 1].pkg_info).items # <<>>
       ELSE ld.entries[ld.i + 1] = JNull

\* C23: while the package list is loaded every malformed entry is skipped
\* and counted in a skipped count surfaced to the operator and never aborts
\* the run: at the end packages built + skipped = number of input entries.
C23_SkippedCounted ==
    ld.pc # "idle" =>
        /\ ld.pc # "exit"
        /\ ld.pc = "loaded" =>
              /\ ld.skipped # None
              /\ Len(ld.packages) + Val(ld.skipped) = Len(ld.entries)

\* C23, as the code has it: the SBOM loop counts every entry it leaves out
\* (packages + skipped = entries gone through) and prints the count when it
\* is positive; the packages-file loop has no skipped count: it leaves out
\* an entry whose URL does not parse without a word and an entry without
\* owner/repo with a warning; the packages are exactly the usable entries,
\* in input order; the load is given up (exit) only before an entry that is
\* no object.
C23_SbomCountsFileDoesNot ==
    ld.pc # "idle" =>
        /\ ld.i \in 0..Len(ld.entries)
        /\ ld.packages = [k \in 1..Cardinality(Usable(ld.i)) |-> Nth(Usable(ld.i), k)]
        /\ ld.mode = "sbom" =>
              /\ Len(ld.packages) + Val(ld.skipped) = ld.i
              /\ ld.pc = "loaded" =>
                    ld.printed_skipped = IF Val(ld.skipped) > 0 THEN ld.skipped ELSE None
        /\ ld.mode = "file" =>
              /\ ld.skipped = None
              /\ ld.printed_skipped = None
              /\ Len(ld.packages) + ld.warnings <= ld.i
        /\ ld.pc = "loaded" => ld.i = Len(ld.entries)
        /\ ld.pc = "exit" => BeforeNonObject

\* A packages file whose first entry has a URL that does not parse: one
\* package loaded out of two entries and no count of the other.
C23_Witness ==
    /\ ld.pc = "loaded"
    /\ ld.mode = "file"
    /\ Len(ld.entries) = 2
    /\ ld.entries[1] = JDict([repository_url |-> JStr("https://github.com/o")])
    /\ ld.packages = <<2>>
    /\ ld.warnings = 0
    /\ ld.printed_skipped = None

----------------------------------------------------------------------------
(* Termination properties of the client                                    *)

\* C24: no gateway operation runs forever: whatever the provider answers,
\* also an endless 'has next page', every paginated fetch and every retried
\* request issues a bounded number of requests and then returns.
C24_EveryCallReturns == <>(gh.pc = "returned")

\* C24, as the code has it: rest_get issues at most retry_count requests
\* and rest_paginate at most max_pages times retry_count, over at most
\* max_pages pages, and both always return; each graphql_query makes at
\* most retry_count attempts.
C24_RestCallsReturn ==
    /\ [](gh.op = "rest_get" => gh.requests <= retry_count)
    /\ [](gh.op = "rest_paginate" =>
             gh.page <= rest_max_pages /\ gh.requests <= rest_max_pages * retry_count)
    /\ [](gh.attempt < retry_count)
    /\ (gh.op \in {"rest_get", "rest_paginate"}) ~> (gh.pc = "returned")

\* get_org_sponsorships still asking after MaxCounted pages that all had a
\* next page.
C24_Witness ==
    /\ gh.op = "get_org_sponsorships"
    /\ gh.pc = "request"
    /\ gh.pages = MaxCounted

----------------------------------------------------------------------------
(* Batch loop: the totals of a PackageResult                               *)

\* The sum of one counter over the first n contributors of a mapping.
RECURSIVE CounterSum(_, _, _)
CounterSum(contribs, field, n) ==
    IF n = 0 THEN 0
    ELSE CounterSum(contribs, field, n - 1) + contribs[n].stats[field]

KeysOf(contribs) == { contribs[i].email : i \in 1..Len(contribs) }

\* C25: in every PackageResult the batch loop builds, total_contributions
\* is the counter-wise sum of the contributors' statistics (all zero when
\* there are none) and unique_contributor_count is the number of keys of
\* the contributors mapping.
C25_TotalsAreSums ==
    \A i \in 1..Len(results) :
       LET r == results[i] IN
       /\ \A field \in StatsFields :
             r.total_contributions[field]
                = CounterSum(r.contributors, field, Len(r.contributors))
       /\ r.contributors = <<>> => r.total_contributions = ZeroStats
       /\ r.unique_contributor_count = Cardinality(KeysOf(r.contributors))

\* A result with two contributors and one with none.
C25_Witness ==
    /\ \E i \in 1..Len(results) :
          /\ Len(results[i].contributors) = 2
          /\ results[i].total_contributions.commits = 2
          /\ results[i].total_contributions.pull_requests_opened = 1
    /\ \E i \in 1..Len(results) : results[i].contributors = <<>>

----------------------------------------------------------------------------
(* Cache properties                                                        *)

\* C26: the member and email lookups are compute-once caches: within one
\* analyzer instance the provider is asked for the member list at most
\* once, also when the fetch fails or gives nothing, and for a username's
\* email at most once, also when there is no email; every lookup returns
\* the first answer; a new instance starts with empty caches.
C26_ComputeOnce ==
    /\ [](/\ gh.members_calls <= 1
          /\ \A u \in CacheUsernames : gh.email_calls[u] <= 1)
    /\ [](af_call.op = "get_org_members" =>
             af_call.result = Val(gh.first_members))
    /\ [](af_call.op = "get_user_email" =>
             af_call.result = gh.first_email[Val(af_call.username)])
    /\ [][gh'.instance # gh.instance =>
             /\ org_members_cache' = None
             /\ user_email_cache' = << >>
             /\ gh'.members_calls = 0]_vars

\* Four lookups on the second instance, the member list fetched once and
\* empty, the email of "u" fetched once and absent, "eve" never asked for.
C26_Witness ==
    /\ gh.instance = MaxInstances
    /\ gh.lookups >= 4
    /\ gh.members_calls = 1 /\ gh.first_members = Some({})
    /\ gh.email_calls["u"] = 1 /\ gh.first_email["u"] = None
    /\ gh.email_calls["eve"] = 0

----------------------------------------------------------------------------
(* Records with missing fields                                             *)

\* C27: analyze_contributions never raises on records with missing
\* optional fields: a null or absent email, a null or absent username, a
\* null author or user object; the call completes and returns a mapping.
C27_NeverRaises == ca_pc # "raised"

\* C27, as the code has it: a record without username and without email is
\* passed over and credits nobody, the mapping holds exactly the identities
\* attributed so far, and a call over empty feeds returns the empty mapping.
C27_MissingFieldsPassedOver ==
    /\ \A i \in DOMAIN log :
          log[i].username = None /\ log[i].email = None => KeyOf(log[i]) = None
    /\ DOMAIN contributions = AffiliatedKeys
    /\ ca_pc = "done" /\ log = <<>> => contributions = << >>

\* The call raised right after passing over an issue record without
\* username.
C27_Witness ==
    /\ ca_pc = "raised"
    /\ log # <<>>
    /\ log[Len(log)].kind \in {"issue", "comment", "review"}
    /\ log[Len(log)].username = None
    /\ log[Len(log)].email = None

----------------------------------------------------------------------------
(* Merged and opened pull requests                                         *)

MergedWithinOpened(stats) == stats.pull_requests_merged <= stats.pull_requests_opened

\* The mapping analyze_contributions holds, as the batch loop reads it.
ContributorsNow ==
    LET keys == SeqOfSet(DOMAIN contributions) IN
    [i \in 1..Len(keys) |-> [email |-> keys[i], stats |-> contributions[keys[i]]]]

\* The result the batch loop builds from the mapping for package `name`.
ResultNow(name) ==
    [package |-> name,
     contributors |-> ContributorsNow,
     total_contributions |-> TotalOf(ContributorsNow),
     unique_contributor_count |-> Len(ContributorsNow),
     sponsorship |-> Status("NOT_SPONSORED", None)]

\* C28: pull_requests_merged <= pull_requests_opened holds for every
\* identity bucket of analyze_contributions in every state, and so for the
\* PackageResult total built from the mapping, for the per-identity totals
\* of the report and for the summary totals, here over two packages with
\* this mapping.
C28_MergedWithinOpened ==
    /\ \A k \in DOMAIN contributions : MergedWithinOpened(contributions[k])
    /\ MergedWithinOpened(ResultNow("p").total_contributions)
    /\ LET res == <<ResultNow("p"), ResultNow("q")>>
           all == AllContributors(<<>>, res)
       IN  /\ \A i \in DOMAIN all : MergedWithinOpened(all[i].total_stats)
           /\ SumOf(res, "pull_requests_merged") <= SumOf(res, "pull_requests_opened")
           /\ SumOf(res, "pull_requests_merged")
                 = 2 * ResultNow("p").total_contributions.pull_requests_merged

\* One identity with a merged and an unmerged pull request.
C28_Witness ==
    \E k \in DOMAIN contributions :
       /\ contributions[k].pull_requests_opened = 2
       /\ contributions[k].pull_requests_merged = 1

----------------------------------------------------------------------------
(* Provider calls of check_project_sponsorship                             *)

SponsorListQueries == {"graphql_user", "graphql_org"}

\* C29: check_project_sponsorship issues its provider calls in tier order
\* and only as far as needed: none at all when the owner is in current or
\* past; otherwise the funding declaration is fetched first, once, and the
\* owner's sponsor list only after it and only when no funding target
\* matched.
C29_CallsInTierOrder ==
    /\ DirectMatch => sp_calls = <<>>
    /\ sp_calls # <<>> => sp_calls[1] = "get_file_content"
    /\ \A i \in DOMAIN sp_calls : i > 1 => sp_calls[i] \in SponsorListQueries
    /\ Len(sp_calls) > 1 => ~DirectMatch /\ MatchingTargets = {}
    /\ sp_pc = "reverse" => sp_calls = <<"get_file_content">>

\* A declared target matched: the call returned after the one fetch of the
\* funding declaration, though the owner has sponsors to list.
C29_Witness ==
    /\ sp_pc = "done"
    /\ ~DirectMatch
    /\ MatchingTargets # {}
    /\ sp_calls = <<"get_file_content">>
    /\ sp_world.sponsors.found # "none"

----------------------------------------------------------------------------
(* Pull requests are counted once                                          *)

\* The counters of all buckets added up.
AllBuckets == TotalOf(ContributorsNow)

\* The positions of the commits of a pull request whose author is
\* affiliated.
AffiliatedCommits(commits) ==
    { i \in DOMAIN commits :
        /\ commits[i].shape = "ok"
        /\ KeyOfIdentityOf[provider_members][email_domain]
                          [commits[i].username][commits[i].email] # None }

\* The commit lists a pull request can have.
PrCommitLists == SeqsUpTo(PrCommitRecords, MaxPrCommits)

\* The pull requests in the window the loop has gone through.
PullsInWindow == { i \in DOMAIN log : log[i].kind = "pull" }

====
